---------------------------- MODULE Spec2Model ----------------------------
(***************************************************************************)
(* Model of the psi-trajectory archive core of Tori:                       *)
(*   - the phase-wrap delta codec (DeltaEncoder / DeltaDecoder),           *)
(*   - the archive writer (PsiArchiveWriter) over a small file system,     *)
(*   - the recorder (PsiRecorder: capture thread, writer thread, rings),   *)
(*   - the archive reader (PsiArchiveReader: open, scan, read_frame).      *)
(* Sources: client/.../rs_impl/psi_recorder.rs and                         *)
(*          ide_frontend/.../rs_impl/src/psi_reader.rs.                    *)
(***************************************************************************)
EXTENDS Integers, Sequences, FiniteSets, TLC

VARIABLES
    \* ---- delta codec harness (SpecCodec)
    cpc,        \* position of the harness: "encode", "decode", "done"
    cprev,      \* previous phase sample (i16)
    ccurr,      \* current phase sample (i16)
    cdelta,     \* result of encode_phase_delta
    cout,       \* result of apply_phase_delta
    \* ---- file system and PsiArchiveWriter
    disk,       \* [path -> bytes of the file, or NoFile]
    w,          \* the writer thread's PsiArchiveWriter (file, started)
    \* ---- PsiRecorder
    is_recording,       \* Arc<AtomicBool>
    current_frame,      \* AtomicUsize
    frame_queue,        \* ArrayQueue<FrameData>: frames in FIFO order
    frame_pool,         \* ArrayQueue<FrameData>: number of pooled buffers
    stats,              \* RecorderStats
    delta_encoder,      \* DeltaEncoder (last_phases, last_amplitudes, last_emotions)
    processing_thread,  \* "none" | "running" | "joined"
    host_pc,            \* host thread: "idle" | "joining" (inside stop_recording)
    \* ---- writer thread (closure of start_recording)
    wt_pc,              \* "idle" | "start" | "loop" | "batch" | "process" | "finish" | "done"
    wt_i,               \* iteration of `for _ in 0..10`
    wt_processed,       \* `processed` of the current batch
    wt_frame,           \* the frame popped and not yet returned to the pool
    wt_frame_index,     \* `frame_index` local of the thread
    wt_last_flush_frame,\* `last_flush_frame` local of the thread
    \* ---- observations of the run (history)
    h_pushed,           \* frames in the order they were pushed on frame_queue
    h_popped,           \* frames in the order the writer thread popped them
    h_written,          \* frames whose chunk write returned Ok, in order
    h_capture,          \* last capture_frame call: [ret, enq, dropped, active]
    h_accepted,         \* number of capture_frame calls that returned true
    h_calls,            \* number of capture_frame calls made while recording
    h_ioerr,            \* "none" | "start" | "chunk" | "flush": first I/O error of the thread
    h_finish,           \* "none" | "ok" | "err": result of writer.finish()
    h_faults,           \* number of I/O operations the environment has failed
    reader,             \* PsiArchiveReader on the final path: its fields
    r_open,             \* None, or Some(result of the last open())
    r_read,             \* None, or Some([frame_index, res]) of the last read_frame()
    h_corrupt,          \* None, or Some([offset, pristine]) once a byte of the archive was altered
    \* ---- alan_core: TrsOde controller and its caller (SpecTrs)
    ode,                \* TrsOde: params (dt, lambda_trs), prev_state, state_dim, stats
    ode_t,              \* the caller's time `t`
    ode_S,              \* the caller's state vector `S`
    ode_call,           \* the last call made on the controller and its outcome
    \* ---- alan_core: Oscillator network and its caller (SpecOsc)
    osc,                \* Oscillator: k_matrix and the scalar parameters
    osc_state,          \* the caller's OscState
    osc_call,           \* the last call made on the oscillator and its outcome
    \* ---- alan_core: StateSnapshot codec harness (SpecSnapshot)
    snap_in,            \* the input of the harness: a snapshot, or a byte buffer
    snap_call,          \* the last to_bytes / from_bytes call and its outcome
    \* ---- alan_core: the C ABI and its callers (SpecFfi, SpecFfiRace)
    SIMULATION,         \* static mut SIMULATION: Option<AlanSimulation>
    ffi_call,           \* the last call of the single caller and its outcome
    ffi_thread,         \* per thread: position inside an init, the call and its outcome
    \* ---- pattern binding: concept graphs and their caller (SpecBind)
    graphs,             \* the global ConceptGraph and one the caller made
    bind_call,          \* the last call on a graph and its outcome
    \* ---- wire format harness (SpecWire)
    wire,               \* the value under conversion and the harness position
    \* ---- phase wrap harness (SpecPhase)
    phase_call,         \* one oscillator's phase and momentum, before and after the step
    \* ---- PsiPlayer and its caller (SpecPlayer, SpecPlayerLive)
    player,             \* PsiPlayer: position, playing, rate, frame_buffer
    player_clock,       \* milliseconds since last_frame_time
    player_call         \* the last call made on the player and its outcome

codecVars == <<cpc, cprev, ccurr, cdelta, cout>>
fsVars == <<disk, w>>
recVars == <<is_recording, current_frame, frame_queue, frame_pool, stats,
             delta_encoder, processing_thread, host_pc>>
wtVars == <<wt_pc, wt_i, wt_processed, wt_frame, wt_frame_index, wt_last_flush_frame>>
histVars == <<h_pushed, h_popped, h_written, h_capture, h_accepted, h_calls,
              h_ioerr, h_finish, h_faults>>

rdVars == <<reader, r_open, r_read, h_corrupt>>
odeVars == <<ode, ode_t, ode_S, ode_call>>
oscVars == <<osc, osc_state, osc_call>>
snapVars == <<snap_in, snap_call>>
ffiVars == <<SIMULATION, ffi_call, ffi_thread>>
bindVars == <<graphs, bind_call>>
wireVars == <<wire>>
phaseVars == <<phase_call>>
playerVars == <<player, player_clock, player_call>>
coreVars == <<odeVars, oscVars, snapVars, ffiVars, bindVars, wireVars, phaseVars, playerVars>>
vars == <<codecVars, fsVars, recVars, wtVars, histVars, rdVars, coreVars>>

-----------------------------------------------------------------------------
(* Integer widths *)

I16Min == -32768
I16Max == 32767
U16Span == 65536

I16 == I16Min..I16Max

\* Rust `x as i16` for an i32 x: keeps the low 16 bits (two's complement).
CastI16(x) == ((x + 32768) % U16Span) - 32768

\* Rust i16::wrapping_add
WrappingAddI16(a, b) == CastI16(a + b)

\* Rust i16::saturating_add
SaturatingAddI16(a, b) ==
    IF a + b > I16Max THEN I16Max
    ELSE IF a + b < I16Min THEN I16Min
    ELSE a + b

-----------------------------------------------------------------------------
(* Delta codec *)

\* A saturating cast in place of the wrapping one.
encode_phase_delta_saturating(prev, curr) ==
    LET raw_delta == curr - prev
    IN  IF raw_delta > I16Max THEN I16Max
        ELSE IF raw_delta < I16Min THEN I16Min
        ELSE raw_delta

\* DeltaEncoder::encode_phase_delta
encode_phase_delta(prev, curr) ==
    LET raw_delta == curr - prev
        wrapped_delta ==
            IF raw_delta > 32767 THEN raw_delta - 65536
            ELSE IF raw_delta <= -32768 THEN raw_delta + 65536
            ELSE raw_delta
    IN  CastI16(wrapped_delta)

\* DeltaDecoder::apply_phase_delta
apply_phase_delta(value, delta) == WrappingAddI16(value, delta)

\* DeltaEncoder::encode_amplitudes / encode_emotions, one element: `b - a`
\* on i16 (the release build wraps on overflow).
encode_plain_delta(last, value) == CastI16(value - last)

\* DeltaEncoder::encode_phases over a vector: the deltas
encode_phases(last_phases, phases) ==
    [i \in 1..Len(phases) |-> encode_phase_delta(last_phases[i], phases[i])]

\* DeltaEncoder::encode_amplitudes (and encode_emotions) over a vector
encode_amplitudes(last, values) ==
    [i \in 1..Len(values) |-> encode_plain_delta(last[i], values[i])]

-----------------------------------------------------------------------------
(* Bytes: little-endian encodings, LEB128, CRC-32/IEEE *)

\* i16::to_le_bytes
I16ToLeBytes(x) ==
    LET u == (x + U16Span) % U16Span
    IN  <<u % 256, u \div 256>>

\* i16::from_le_bytes
I16FromLeBytes(lo, hi) == CastI16(lo + 256 * hi)

\* u64::to_le_bytes, for the values below 2^31 the model draws
U64ToLeBytes(x) ==
    <<x % 256, (x \div 256) % 256, (x \div 65536) % 256, (x \div 16777216) % 256,
      0, 0, 0, 0>>

RECURSIVE Flatten(_)
\* concatenation of a sequence of byte sequences
Flatten(seqs) ==
    IF seqs = <<>> THEN <<>> ELSE Head(seqs) \o Flatten(Tail(seqs))

\* the `for &x in &v { data.extend_from_slice(&x.to_le_bytes()) }` loops
PackI16s(v) == Flatten([i \in 1..Len(v) |-> I16ToLeBytes(v[i])])

RECURSIVE BitXor(_, _)
\* bitwise exclusive or of two naturals
BitXor(a, b) ==
    IF a = 0 THEN b
    ELSE IF b = 0 THEN a
    ELSE (((a % 2) + (b % 2)) % 2) + 2 * BitXor(a \div 2, b \div 2)

\* A u32 is held as its four little-endian bytes <<b0, b1, b2, b3>>.
U32Xor(c, d) == <<BitXor(c[1], d[1]), BitXor(c[2], d[2]),
                  BitXor(c[3], d[3]), BitXor(c[4], d[4])>>

U32Shr1(c) == <<(c[1] \div 2) + 128 * (c[2] % 2),
                (c[2] \div 2) + 128 * (c[3] % 2),
                (c[3] \div 2) + 128 * (c[4] % 2),
                c[4] \div 2>>

\* the reflected IEEE polynomial 0xEDB88320
CrcPoly == <<32, 131, 184, 237>>

CrcAllOnes == <<255, 255, 255, 255>>

RECURSIVE CrcRounds(_, _)
CrcRounds(c, n) ==
    IF n = 0 THEN c
    ELSE CrcRounds(IF c[1] % 2 = 1 THEN U32Xor(U32Shr1(c), CrcPoly) ELSE U32Shr1(c),
                   n - 1)

\* the 256-entry table of the byte-at-a-time algorithm
CrcTable == [i \in 0..255 |-> CrcRounds(<<i, 0, 0, 0>>, 8)]

\* one byte: `table[(crc ^ b) & 0xFF] ^ (crc >> 8)`
CrcStep(c, byte) == U32Xor(CrcTable[BitXor(c[1], byte)], <<c[2], c[3], c[4], 0>>)

RECURSIVE CrcUpdate(_, _, _)
\* crc32fast::Hasher::update over the bytes from the i-th on, c being the
\* four-byte register after the bytes before it
CrcUpdate(c, bytes, i) ==
    IF i > Len(bytes) \/ Len(c) # 4 THEN c
    ELSE CrcUpdate(CrcStep(c, bytes[i]), bytes, i + 1)

\* crc32fast::Hasher::new / update / finalize, then u32::to_le_bytes
Crc32LeBytes(bytes) == U32Xor(CrcUpdate(CrcAllOnes, bytes, 1), CrcAllOnes)

RECURSIVE write_leb128(_)
\* PsiArchiveWriter::write_leb128: the bytes emitted for `value`
write_leb128(value) ==
    LET byte == value % 128
        rest == value \div 128
    IN  IF rest # 0 THEN <<byte + 128>> \o write_leb128(rest)
        ELSE <<byte>>

-----------------------------------------------------------------------------
(* IEEE-754 binary32 arithmetic, as the reader's i16 <-> f32 conversions    *)
(* use it.  A value is [sign, m, e] standing for sign * m * 2^e with m = 0  *)
(* or 2^23 <= m < 2^24; results are rounded to nearest, ties to even.  The  *)
(* exponents of the values the reader forms stay far inside the normal      *)
(* range, so subnormals and infinities do not arise.                        *)

F32Hidden == 8388608        \* 2^23
F32Span == 16777216         \* 2^24
F32Limb == 4096             \* 2^12

F32Zero(sign) == [sign |-> sign, m |-> 0, e |-> 0]

RECURSIVE F32Normalize(_, _, _)
\* an exactly representable sign * m * 2^e with 0 < m < 2^24
F32Normalize(sign, m, e) ==
    IF m >= F32Hidden THEN [sign |-> sign, m |-> m, e |-> e]
    ELSE F32Normalize(sign, 2 * m, e - 1)

\* `x as f32` for an i16: exact
F32FromI16(x) ==
    IF x = 0 THEN F32Zero(1)
    ELSE IF x < 0 THEN F32Normalize(-1, -x, 0)
    ELSE F32Normalize(1, x, 0)

\* std::f32::consts::PI = 0x40490FDB
F32Pi == [sign |-> 1, m |-> 13176795, e |-> -22]

\* the literal 32767.0
F32MaxI16 == [sign |-> 1, m |-> 16776704, e |-> -9]

\* round sign * (h + num/den) * 2^e, 2^23 <= h < 2^24, 0 <= num < den
F32Round(sign, h, num, den, e) ==
    LET up == 2 * num > den \/ (2 * num = den /\ h % 2 = 1)
        h1 == IF up THEN h + 1 ELSE h
    IN  IF h1 = F32Span THEN [sign |-> sign, m |-> F32Hidden, e |-> e + 1]
        ELSE [sign |-> sign, m |-> h1, e |-> e]

\* a * b
F32Mul(a, b) ==
    LET sign == a.sign * b.sign
        ah == a.m \div F32Limb
        al == a.m % F32Limb
        bh == b.m \div F32Limb
        bl == b.m % F32Limb
        mid == (ah * bl) + (al * bh)
        lt == ((mid % F32Limb) * F32Limb) + (al * bl)
        hi == (ah * bh) + (mid \div F32Limb) + (lt \div F32Span)
        lo == lt % F32Span
    IN  IF a.m = 0 \/ b.m = 0 THEN F32Zero(sign)
        ELSE IF hi >= F32Hidden
        THEN F32Round(sign, hi, lo, F32Span, a.e + b.e + 24)
        ELSE F32Round(sign, (2 * hi) + (lo \div F32Hidden), lo % F32Hidden, F32Hidden,
                      a.e + b.e + 23)

RECURSIVE F32LongDiv(_, _, _)
\* [q, r] with n * 2^steps = q * d + r, 0 <= r < d, for n < 2 * d
\* (six binary digits of the quotient at a time: r * 2^6 < 2^30 for r < d < 2^24)
F32LongDiv(n, d, steps) ==
    IF steps = 0 THEN [q |-> n \div d, r |-> n % d]
    ELSE LET k == IF steps >= 6 THEN 6 ELSE steps
             p == F32LongDiv(n, d, steps - k)
             r2 == (2 ^ k) * p.r
         IN  [q |-> ((2 ^ k) * p.q) + (r2 \div d), r |-> r2 % d]

\* a / b for b # 0
F32Div(a, b) ==
    LET sign == a.sign * b.sign
        steps == IF a.m >= b.m THEN 23 ELSE 24
        d == F32LongDiv(a.m, b.m, steps)
    IN  IF a.m = 0 THEN F32Zero(sign)
        ELSE F32Round(sign, d.q, d.r, b.m, a.e - b.e - steps)

\* `x as i16` for an f32: truncation toward zero, saturating
F32ToI16(a) ==
    LET mag == IF a.m = 0 \/ a.e <= -24 THEN 0
               ELSE IF a.e >= -7 THEN I16Max + 1
               ELSE a.m \div (2 ^ (-a.e))
    IN  IF a.sign = 1 THEN (IF mag > I16Max THEN I16Max ELSE mag)
        ELSE (IF mag > I16Max + 1 THEN I16Min ELSE -mag)

\* Frame::apply_int16_phases, one element: (phase as f32 * PI) / 32767.0
apply_int16_phase(phase) == F32Div(F32Mul(F32FromI16(phase), F32Pi), F32MaxI16)

\* Frame::apply_int16_amplitudes / apply_int16_emotions, one element
apply_int16_amplitude(amplitude) == F32Div(F32FromI16(amplitude), F32MaxI16)

\* read_frame: `(phase * 32767.0 / PI) as i16`
phase_to_int16(phase) == F32ToI16(F32Div(F32Mul(phase, F32MaxI16), F32Pi))

\* read_frame: `(amplitude * 32767.0) as i16`
amplitude_to_int16(amplitude) == F32ToI16(F32Mul(amplitude, F32MaxI16))

-----------------------------------------------------------------------------
(* Wire constants (psi_recorder.rs) *)

BAND_MICRO == 1
BAND_MESO == 2
BAND_MACRO == 3
BAND_AUDIO_PCM == 254
BAND_END == 255
KEYFRAME_MARKER == 128

\* b"\xCE\xA8ARC": the five magic bytes
MagicBytes == <<206, 168, 65, 82, 67>>

\* &[1, 0]: version 1 as u16 LE
VersionBytes == <<1, 0>>

-----------------------------------------------------------------------------
(* Configuration of the modelled recorder (RecorderConfig) and run bounds *)

oscillator_count == 1
emotion_dimensions == 1
queue_capacity == 2
keyframe_interval == 3
flush_interval == 2
meso_decimation == 2

\* capture_frame calls made while recording is active
MaxCaptures == 4

\* the same in the session under backpressure: two keyframe intervals and
\* the keyframe that follows them
MaxBackpressureCaptures == (2 * keyframe_interval) + 1

\* wall-clock start times handed to PsiArchiveWriter::start
StartTimes == {1000}

\* The quantized signal the host captures, (phase, amplitude, emotion) per
\* frame, repeating: the phases 32000 then -32536 are the wrap of scenario E4.
CaptureSequence == << <<32000, 0, 0>>, <<-32536, 32767, 16384>> >>

\* the sample the signal holds when frame `frame_index` is captured
CaptureSamples(frame_index) == {CaptureSequence[(frame_index % Len(CaptureSequence)) + 1]}

\* `for _ in 0..10` of the writer loop
BatchSize == 10

\* 0-based offsets at which the archive may be altered: magic (first and
\* fifth byte), version, start timestamp, header CRC, and the first byte of the
\* first chunk's payload (header 19 bytes, tag, one length byte)
CorruptOffsets == {0, 4, 5, 7, 15, 21}

\* I/O operations the environment may fail in one run
MaxFaults == 1

\* which write_all of write_chunk may fail: 0 none, 1 the tag, 3 the payload
\* (tag and length already staged: a torn chunk)
ChunkFailPoints == {0, 1, 3}

-----------------------------------------------------------------------------
(* File system *)

\* format!("{}.psiarc", session_id) under output_dir
FinalPath == [stem |-> "session", ext |-> "psiarc"]

\* Path::with_extension: replaces the extension
with_extension(path, ext) == [path EXCEPT !.ext = ext]

\* PsiArchiveWriter::new: temp_path
TempPath == with_extension(FinalPath, "tmp")

Paths == {FinalPath, TempPath}

NoFile == [exists |-> FALSE, bytes |-> <<>>]

File(bytes) == [exists |-> TRUE, bytes |-> bytes]

\* std::fs::rename(from, to): atomic replace
Rename(d, from, to) == [d EXCEPT ![to] = d[from], ![from] = NoFile]

-----------------------------------------------------------------------------
(* PsiArchiveWriter.  w.file is `file.is_some()`, w.buf the bytes held by   *)
(* the BufWriter and not yet flushed, w.started the `started` flag.  Every  *)
(* operation returns [ok, w, disk].  A write_all into the BufWriter fails   *)
(* only when it has to flush first; the model lets any write_all of         *)
(* write_chunk and finish fail, and the header (19 bytes into an empty      *)
(* buffer) never.                                                           *)

WriterNew == [file |-> FALSE, buf |-> <<>>, started |-> FALSE]

\* the 15 bytes the header CRC covers, then the CRC
HeaderBytes(start_time_ms) ==
    LET covered == MagicBytes \o VersionBytes \o U64ToLeBytes(start_time_ms)
    IN  covered \o Crc32LeBytes(covered)

\* PsiArchiveWriter::start; fail \in {"none", "open"}
writer_start(wr, d, start_time_ms, fail) ==
    IF fail = "open"
    THEN [ok |-> FALSE, w |-> wr, disk |-> d]
    ELSE [ok |-> TRUE,
          w |-> [file |-> TRUE, buf |-> HeaderBytes(start_time_ms), started |-> TRUE],
          disk |-> [d EXCEPT ![TempPath] = File(<<>>)]]

\* write_chunk: `band_type | KEYFRAME_MARKER` (band codes have bit 7 clear or are 0xFE/0xFF)
chunk_tag(band_type, is_keyframe) ==
    IF is_keyframe /\ band_type < KEYFRAME_MARKER THEN band_type + KEYFRAME_MARKER
    ELSE band_type

\* the four write_all calls of write_chunk, in order
ChunkPieces(band_type, is_keyframe, data) ==
    << <<chunk_tag(band_type, is_keyframe)>>,
       write_leb128(Len(data)),
       data,
       Crc32LeBytes(data) >>

\* PsiArchiveWriter::write_chunk; failAt = 0: every write succeeds,
\* failAt = k in 1..4: the k-th write_all fails.
writer_write_chunk(wr, d, band_type, is_keyframe, data, failAt) ==
    IF ~wr.started
    THEN [ok |-> FALSE, w |-> wr, disk |-> d]
    ELSE LET pieces == ChunkPieces(band_type, is_keyframe, data)
             done == IF failAt = 0 THEN pieces ELSE SubSeq(pieces, 1, failAt - 1)
         IN  [ok |-> failAt = 0,
              w |-> [wr EXCEPT !.buf = wr.buf \o Flatten(done)],
              disk |-> d]

\* PsiArchiveWriter::flush
writer_flush(wr, d, fail) ==
    IF ~wr.file THEN [ok |-> TRUE, w |-> wr, disk |-> d]
    ELSE IF fail THEN [ok |-> FALSE, w |-> wr, disk |-> d]
    ELSE [ok |-> TRUE,
          w |-> [wr EXCEPT !.buf = <<>>],
          disk |-> [d EXCEPT ![TempPath] = File(d[TempPath].bytes \o wr.buf)]]

\* Drop of the BufWriter: a flush whose error is ignored.
writer_drop(wr, d, flushFails) ==
    IF wr.file /\ ~flushFails /\ d[TempPath].exists
    THEN [d EXCEPT ![TempPath] = File(d[TempPath].bytes \o wr.buf)]
    ELSE d

\* A finish that renames although the flush failed.
writer_finish_rename_always(wr, d, fail) ==
    IF ~wr.started
    THEN [ok |-> FALSE, w |-> WriterNew, disk |-> d]
    ELSE [ok |-> (fail = "none"), w |-> WriterNew,
          disk |-> Rename(d, TempPath, FinalPath)]

\* PsiArchiveWriter::finish; fail \in {"none", "write", "flush", "rename"}.
\* The writer is consumed: it is dropped on every path.
writer_finish(wr, d, fail) ==
    IF ~wr.started
    THEN [ok |-> FALSE, w |-> WriterNew, disk |-> writer_drop(wr, d, FALSE)]
    ELSE IF fail = "write"
    THEN [ok |-> FALSE, w |-> WriterNew, disk |-> writer_drop(wr, d, TRUE)]
    ELSE LET ended == [wr EXCEPT !.buf = wr.buf \o <<BAND_END>> \o write_leb128(0)]
         IN  IF fail = "flush"
             THEN [ok |-> FALSE, w |-> WriterNew, disk |-> writer_drop(ended, d, TRUE)]
             ELSE LET flushed == writer_flush(ended, d, FALSE).disk
                  IN  IF fail = "rename"
                      THEN [ok |-> FALSE, w |-> WriterNew, disk |-> flushed]
                      ELSE [ok |-> TRUE, w |-> WriterNew,
                            disk |-> Rename(flushed, TempPath, FinalPath)]

-----------------------------------------------------------------------------
(* PsiRecorder *)

\* vec![x; n]
Repeat(x, n) == [i \in 1..n |-> x]

\* DeltaEncoder::new / reset
EncoderReset ==
    [last_phases |-> Repeat(0, oscillator_count),
     last_amplitudes |-> Repeat(0, oscillator_count),
     last_emotions |-> Repeat(0, emotion_dimensions)]

\* RecorderStats::default (the wall-clock timing fields are left out)
StatsDefault ==
    [frames_captured |-> 0, frames_processed |-> 0, frames_dropped |-> 0, keyframes |-> 0]

\* FrameData as filled by capture_frame (timestamp_ms, the wall clock, left out)
MakeFrame(frame_index, is_keyframe, band, sample) ==
    [frame_index |-> frame_index,
     is_keyframe |-> is_keyframe,
     band |-> band,
     phases |-> Repeat(sample[1], oscillator_count),
     amplitudes |-> Repeat(sample[2], oscillator_count),
     emotions |-> Repeat(sample[3], emotion_dimensions)]

NoFrame == [frame_index |-> 0, is_keyframe |-> FALSE, band |-> 0,
            phases |-> <<>>, amplitudes |-> <<>>, emotions |-> <<>>]

\* A keyframe test that knows only the first frame.
is_keyframe_at_first_only(frame_index) ==
    frame_index = 0

\* capture_frame: `frame_index == 0 || frame_index % keyframe_interval == 0`
is_keyframe_at(frame_index) ==
    frame_index = 0 \/ frame_index % keyframe_interval = 0

\* the raw payload: phases, then amplitudes, then emotions, as i16 LE
RawPayload(phases, amplitudes, emotions) ==
    PackI16s(phases) \o PackI16s(amplitudes) \o PackI16s(emotions)

\* A flush test that waits one frame longer.
flush_due_late(frame_index, last_flush_frame) ==
    frame_index - last_flush_frame > flush_interval

\* process_frame: `*frame_index - *last_flush_frame >= config.flush_interval`
flush_due(frame_index, last_flush_frame) ==
    frame_index - last_flush_frame >= flush_interval

\* PsiRecorder::process_frame.  failAt: outcome of the chunk write (0 = Ok),
\* flushFail: outcome of the periodic flush when one is due.
process_frame(wr, d, frame, enc, frame_index, last_flush_frame, failAt, flushFail) ==
    LET fi == frame_index + 1
        raw == RawPayload(frame.phases, frame.amplitudes, frame.emotions)
        deltas == RawPayload(encode_phases(enc.last_phases, frame.phases),
                             encode_amplitudes(enc.last_amplitudes, frame.amplitudes),
                             encode_amplitudes(enc.last_emotions, frame.emotions))
        frameEnc == [last_phases |-> frame.phases,
                     last_amplitudes |-> frame.amplitudes,
                     last_emotions |-> frame.emotions]
        known == frame.band \in {BAND_MICRO, BAND_MESO, BAND_MACRO}
        isDelta == frame.band = BAND_MICRO /\ ~frame.is_keyframe
        wrote == IF ~known THEN [ok |-> TRUE, w |-> wr, disk |-> d]
                 ELSE IF isDelta
                 THEN writer_write_chunk(wr, d, BAND_MICRO, FALSE, deltas, failAt)
                 ELSE writer_write_chunk(wr, d, frame.band, TRUE, raw, failAt)
        \* the delta branch updates the encoder before the write, the
        \* keyframe branch after a successful write
        enc1 == IF isDelta THEN frameEnc
                ELSE IF frame.band = BAND_MICRO /\ wrote.ok THEN frameEnc
                ELSE enc
        due == flush_due(fi, last_flush_frame)
        flushed == writer_flush(wrote.w, wrote.disk, flushFail)
    IN  IF ~wrote.ok
        THEN [ok |-> FALSE, wrote |-> FALSE, w |-> wrote.w, disk |-> wrote.disk,
              enc |-> enc1, frame_index |-> fi, last_flush_frame |-> last_flush_frame]
        ELSE IF ~due
        THEN [ok |-> TRUE, wrote |-> known, w |-> wrote.w, disk |-> wrote.disk,
              enc |-> enc1, frame_index |-> fi, last_flush_frame |-> last_flush_frame]
        ELSE IF ~flushed.ok
        THEN [ok |-> FALSE, wrote |-> known, w |-> flushed.w, disk |-> flushed.disk,
              enc |-> enc1, frame_index |-> fi, last_flush_frame |-> last_flush_frame]
        ELSE [ok |-> TRUE, wrote |-> known, w |-> flushed.w, disk |-> flushed.disk,
              enc |-> enc1, frame_index |-> fi, last_flush_frame |-> fi]

\* A push that drops the buffer it is given.
pool_push_discards(pool) == pool

\* `let _ = frame_pool.push(frame)` on the pool's ArrayQueue: a push on a
\* full queue fails and the buffer is dropped
pool_push(pool) == IF pool < queue_capacity THEN pool + 1 ELSE pool

\* The tail of capture_frame after `if let Some(mut meso_frame) =
\* self.frame_pool.pop() {`: the buffer is filled as a BAND_MESO copy of the
\* frame and pushed on the frame queue (process_frame consumes BAND_MESO
\* frames); a failed push returns the buffer to the pool.
capture_meso_tail(queue, pool, frame_index, sample) ==
    LET meso_frame == MakeFrame(frame_index, FALSE, BAND_MESO, sample)
    IN  IF Len(queue) < queue_capacity
        THEN [queue |-> Append(queue, meso_frame), pool |-> pool, pushed |-> <<meso_frame>>]
        ELSE [queue |-> queue, pool |-> pool + 1, pushed |-> <<>>]

\* The `else` of `if let Some(mut frame) = self.frame_pool.pop()`: on a pool
\* miss the frame is dropped and frames_dropped is bumped.
capture_pool_miss(st) == [st EXCEPT !.frames_dropped = @ + 1]

\* PsiRecorder::capture_frame while recording: the state after the call and
\* what the call did.
capture_frame(sample) ==
    LET frame_index == current_frame
        is_keyframe == is_keyframe_at(frame_index)
        frame == MakeFrame(frame_index, is_keyframe, BAND_MICRO, sample)
        queue1 == Append(frame_queue, frame)
        pool1 == frame_pool - 1
        stats1 == [stats EXCEPT !.frames_captured = @ + 1,
                                !.keyframes = IF is_keyframe THEN @ + 1 ELSE @]
        mesoDue == meso_decimation > 0 /\ frame_index % meso_decimation = 0
        meso == capture_meso_tail(queue1, pool1 - 1, frame_index, sample)
    IN  IF frame_pool = 0
        THEN \* pool miss
             [ret |-> FALSE, enq |-> FALSE, queue |-> frame_queue, pool |-> frame_pool,
              stats |-> capture_pool_miss(stats), pushed |-> <<>>]
        ELSE IF Len(frame_queue) >= queue_capacity
        THEN \* queue full: the buffer goes back to the pool
             [ret |-> FALSE, enq |-> FALSE, queue |-> frame_queue, pool |-> frame_pool,
              stats |-> [stats EXCEPT !.frames_dropped = @ + 1], pushed |-> <<>>]
        ELSE IF mesoDue /\ pool1 > 0
        THEN [ret |-> TRUE, enq |-> TRUE, queue |-> meso.queue, pool |-> meso.pool,
              stats |-> stats1, pushed |-> <<frame>> \o meso.pushed]
        ELSE [ret |-> TRUE, enq |-> TRUE, queue |-> queue1, pool |-> pool1,
              stats |-> stats1, pushed |-> <<frame>>]

\* capture_frame called by the host loop, which makes at most `captures`
\* calls while recording
CaptureFrameWithin(sample, captures) ==
    /\ host_pc = "idle"
    /\ IF ~is_recording
       THEN /\ h_capture' = [ret |-> FALSE, enq |-> FALSE, dropped |-> 0, active |-> FALSE]
            /\ UNCHANGED <<current_frame, frame_queue, frame_pool, stats,
                           h_pushed, h_accepted, h_calls>>
       ELSE /\ current_frame < captures
            /\ LET c == capture_frame(sample)
               IN  /\ current_frame' = current_frame + 1
                   /\ frame_queue' = c.queue
                   /\ frame_pool' = c.pool
                   /\ stats' = c.stats
                   /\ h_pushed' = h_pushed \o c.pushed
                   /\ h_accepted' = h_accepted + (IF c.ret THEN 1 ELSE 0)
                   /\ h_calls' = h_calls + 1
                   /\ h_capture' = [ret |-> c.ret, enq |-> c.enq,
                                    dropped |-> c.stats.frames_dropped - stats.frames_dropped,
                                    active |-> TRUE]
    /\ UNCHANGED <<coreVars, codecVars, rdVars, fsVars, wtVars, is_recording, delta_encoder,
                   processing_thread, host_pc, h_popped, h_written, h_ioerr,
                   h_finish, h_faults>>

CaptureFrame(sample) == CaptureFrameWithin(sample, MaxCaptures)

\* PsiRecorder::start_recording (one session per recorder is modelled)
StartRecording ==
    /\ host_pc = "idle"
    /\ processing_thread = "none"
    /\ ~is_recording
    /\ current_frame' = 0
    /\ stats' = StatsDefault
    /\ delta_encoder' = EncoderReset
    /\ frame_pool' = frame_pool + Len(frame_queue)
    /\ frame_queue' = <<>>
    /\ is_recording' = TRUE
    /\ processing_thread' = "running"
    /\ wt_pc' = "start"
    /\ UNCHANGED <<coreVars, codecVars, rdVars, fsVars, host_pc, wt_i, wt_processed, wt_frame,
                   wt_frame_index, wt_last_flush_frame, histVars>>

\* stop_recording, first half: clear the active flag
StopRecordingClear ==
    /\ host_pc = "idle"
    /\ processing_thread = "running"
    /\ is_recording
    /\ is_recording' = FALSE
    /\ host_pc' = "joining"
    /\ UNCHANGED <<coreVars, codecVars, rdVars, fsVars, wtVars, histVars, current_frame, frame_queue,
                   frame_pool, stats, delta_encoder, processing_thread>>

\* stop_recording, second half: join the writer thread
StopRecordingJoin ==
    /\ host_pc = "joining"
    /\ wt_pc = "done"
    /\ processing_thread' = "joined"
    /\ host_pc' = "idle"
    /\ UNCHANGED <<coreVars, codecVars, rdVars, fsVars, wtVars, histVars, is_recording, current_frame,
                   frame_queue, frame_pool, stats, delta_encoder>>

-----------------------------------------------------------------------------
(* The writer thread spawned by start_recording *)

Fault(failed) == IF failed THEN 1 ELSE 0

\* PsiArchiveWriter::new, writer.start(start_time); on Err the thread returns
WtStart ==
    /\ wt_pc = "start"
    /\ \E start_time \in StartTimes, fail \in {"none", "open"} :
         /\ fail # "none" => h_faults < MaxFaults
         /\ LET r == writer_start(WriterNew, disk, start_time, fail)
            IN  /\ disk' = r.disk
                /\ w' = r.w
                /\ wt_pc' = IF r.ok THEN "loop" ELSE "done"
                /\ h_ioerr' = IF r.ok THEN h_ioerr ELSE "start"
                /\ h_faults' = h_faults + Fault(~r.ok)
    /\ wt_frame_index' = 0
    /\ wt_last_flush_frame' = 0
    /\ UNCHANGED <<coreVars, codecVars, rdVars, recVars, wt_i, wt_processed, wt_frame,
                   h_pushed, h_popped, h_written, h_capture, h_accepted, h_calls,
                   h_finish>>

\* `while is_recording.load(Acquire) || !frame_queue.is_empty()`
WtLoop ==
    /\ wt_pc = "loop"
    /\ IF is_recording \/ frame_queue # <<>>
       THEN /\ wt_pc' = "batch"
            /\ wt_i' = 0
            /\ wt_processed' = 0
       ELSE /\ wt_pc' = "finish"
            /\ UNCHANGED <<wt_i, wt_processed>>
    /\ UNCHANGED <<coreVars, codecVars, rdVars, fsVars, recVars, histVars, wt_frame, wt_frame_index,
                   wt_last_flush_frame>>

\* A pop that takes the newest frame of the queue instead of the oldest.
WtPopLifo ==
    /\ wt_pc = "batch"
    /\ IF wt_i < BatchSize /\ frame_queue # <<>>
       THEN /\ wt_frame' = frame_queue[Len(frame_queue)]
            /\ frame_queue' = SubSeq(frame_queue, 1, Len(frame_queue) - 1)
            /\ h_popped' = Append(h_popped, frame_queue[Len(frame_queue)])
            /\ wt_pc' = "process"
       ELSE /\ wt_pc' = "loop"
            /\ UNCHANGED <<wt_frame, frame_queue, h_popped>>
    /\ UNCHANGED <<coreVars, codecVars, rdVars, fsVars, is_recording, current_frame, frame_pool, stats,
                   delta_encoder, processing_thread, host_pc, wt_i, wt_processed,
                   wt_frame_index, wt_last_flush_frame, h_pushed, h_written,
                   h_capture, h_accepted, h_calls, h_ioerr, h_finish, h_faults>>

\* one iteration of `for _ in 0..10`: `frame_queue.pop()`, or leave the batch
\* (after the sleep when nothing was processed)
WtPop ==
    /\ wt_pc = "batch"
    /\ IF wt_i < BatchSize /\ frame_queue # <<>>
       THEN /\ wt_frame' = Head(frame_queue)
            /\ frame_queue' = Tail(frame_queue)
            /\ h_popped' = Append(h_popped, Head(frame_queue))
            /\ wt_pc' = "process"
       ELSE /\ wt_pc' = "loop"
            /\ UNCHANGED <<wt_frame, frame_queue, h_popped>>
    /\ UNCHANGED <<coreVars, codecVars, rdVars, fsVars, is_recording, current_frame, frame_pool, stats,
                   delta_encoder, processing_thread, host_pc, wt_i, wt_processed,
                   wt_frame_index, wt_last_flush_frame, h_pushed, h_written,
                   h_capture, h_accepted, h_calls, h_ioerr, h_finish, h_faults>>

\* process_frame on the popped frame (an Err is only printed), the stats
\* update, and the return of the buffer to the pool
WtProcess ==
    /\ wt_pc = "process"
    /\ \E failAt \in ChunkFailPoints, flushFail \in BOOLEAN :
         LET r == process_frame(w, disk, wt_frame, delta_encoder, wt_frame_index,
                                wt_last_flush_frame, failAt, flushFail)
             flushTried == r.wrote /\ flush_due(r.frame_index, wt_last_flush_frame)
             failed == failAt # 0 \/ (flushTried /\ flushFail)
         IN  /\ failAt # 0 => wt_frame.band \in {BAND_MICRO, BAND_MESO, BAND_MACRO}
             /\ flushFail => (failAt = 0 /\ flushTried)
             /\ failed => h_faults < MaxFaults
             /\ w' = r.w
             /\ disk' = r.disk
             /\ delta_encoder' = r.enc
             /\ wt_frame_index' = r.frame_index
             /\ wt_last_flush_frame' = r.last_flush_frame
             /\ h_written' = IF r.wrote THEN Append(h_written, wt_frame) ELSE h_written
             /\ h_ioerr' = IF r.ok \/ h_ioerr # "none" THEN h_ioerr
                           ELSE IF failAt # 0 THEN "chunk" ELSE "flush"
             /\ h_faults' = h_faults + Fault(failed)
    /\ stats' = [stats EXCEPT !.frames_processed = @ + 1]
    /\ frame_pool' = pool_push(frame_pool)
    /\ wt_frame' = NoFrame
    /\ wt_processed' = wt_processed + 1
    /\ wt_i' = wt_i + 1
    /\ wt_pc' = "batch"
    /\ UNCHANGED <<coreVars, codecVars, rdVars, is_recording, current_frame, frame_queue,
                   processing_thread, host_pc, h_pushed, h_popped, h_capture,
                   h_accepted, h_calls, h_finish>>

\* `writer.finish()` after the loop (an Err is only printed), then thread exit
WtFinish ==
    /\ wt_pc = "finish"
    /\ \E fail \in {"none", "write", "flush", "rename"} :
         /\ fail # "none" => h_faults < MaxFaults
         /\ LET r == writer_finish(w, disk, fail)
            IN  /\ w' = r.w
                /\ disk' = r.disk
                /\ h_finish' = IF r.ok THEN "ok" ELSE "err"
                /\ h_faults' = h_faults + Fault(~r.ok)
    /\ wt_pc' = "done"
    /\ UNCHANGED <<coreVars, codecVars, rdVars, recVars, wt_i, wt_processed, wt_frame, wt_frame_index,
                   wt_last_flush_frame, h_pushed, h_popped, h_written, h_capture,
                   h_accepted, h_calls, h_ioerr>>

-----------------------------------------------------------------------------
(* PsiArchiveReader (psi_reader.rs).  `reader` holds the fields of the      *)
(* object; a memory map is the byte sequence of the file, Rust offsets are  *)
(* 0-based.                                                                 *)

None == [some |-> FALSE]
Some(x) == [some |-> TRUE, v |-> x]

Ok(x) == [ok |-> TRUE, v |-> x]
Err(kind, msg) == [ok |-> FALSE, kind |-> kind, msg |-> msg]

\* mmap[offset]
ByteAt(bytes, offset) == bytes[offset + 1]

\* &mmap[from..to]
Slice(bytes, from, to) == SubSeq(bytes, from + 1, to)

\* u64::from_le_bytes, for values below 2^31
U64FromLeBytes(b) == b[1] + (256 * b[2]) + (65536 * b[3]) + (16777216 * (b[4] % 128))

\* DeltaDecoder::new / reset
DecoderReset ==
    [last_phases |-> Repeat(0, oscillator_count),
     last_amplitudes |-> Repeat(0, oscillator_count),
     last_emotions |-> Repeat(0, emotion_dimensions)]

\* `max_keyframe_cache: 10`
max_keyframe_cache == 10

\* PsiArchiveReader::new
ReaderNew ==
    [mmap |-> None, header |-> None, keyframe_chunks |-> <<>>, all_chunks |-> <<>>,
     keyframe_cache |-> <<>>, delta_decoder |-> DecoderReset, duration_ms |-> 0]

\* PsiArchiveReader::read_header: `&mmap[0..4] != b"\xCE\xA8ARC"` compares a
\* four-byte slice with the five-byte literal; the CRC is parsed, not verified.
read_header(mmap) ==
    IF Len(mmap) < 16
    THEN Err("InvalidFormat", "File too small for header")
    ELSE IF Slice(mmap, 0, 4) # MagicBytes
    THEN Err("InvalidFormat", "Invalid magic bytes")
    ELSE Ok([version |-> ByteAt(mmap, 4) + (256 * ByteAt(mmap, 5)),
             start_timestamp_ms |-> U64FromLeBytes(Slice(mmap, 6, 14)),
             header_crc |-> Slice(mmap, 14, 18)])

\* lengths are usize; the model holds them up to this cap, above every file
\* length it forms
LengthCap == 1073741824

\* `((byte & 0x7F) as usize) << shift`, capped
ShiftLeftCapped(v, shift) ==
    IF shift >= 28 /\ v >= 4 THEN LengthCap ELSE v * (2 ^ shift)

RECURSIVE read_leb128_loop(_, _, _, _, _)
\* the loop of PsiArchiveReader::read_leb128
read_leb128_loop(mmap, offset, result, shift, bytes_read) ==
    IF offset >= Len(mmap)
    THEN Err("InvalidFormat", "Unexpected end of file in LEB128")
    ELSE LET byte == ByteAt(mmap, offset)
             sum == result + ShiftLeftCapped(byte % 128, shift)
             result1 == IF sum > LengthCap THEN LengthCap ELSE sum
         IN  IF byte < 128
             THEN Ok([value |-> result1, bytes_read |-> bytes_read + 1])
             ELSE IF shift + 7 > 28
             THEN Err("InvalidFormat", "LEB128 overflow")
             ELSE read_leb128_loop(mmap, offset + 1, result1, shift + 7, bytes_read + 1)

\* PsiArchiveReader::read_leb128
read_leb128(mmap, offset) == read_leb128_loop(mmap, offset, 0, 0, 0)

VisualBands == {BAND_MICRO, BAND_MESO, BAND_MACRO}

RECURSIVE scan_chunks_loop(_, _, _, _, _, _)
\* the `while offset < mmap.len()` loop of scan_chunks; the result carries the
\* indices as they stand when the loop ends or returns the error
scan_chunks_loop(mmap, header, offset, frame_index, all, keys) ==
    IF offset >= Len(mmap)
    THEN [res |-> Ok(TRUE), all_chunks |-> all, keyframe_chunks |-> keys]
    ELSE LET tag == ByteAt(mmap, offset)
             chunk_type == tag % 128
             is_keyframe == tag >= KEYFRAME_MARKER
             leb == read_leb128(mmap, offset + 1)
             data_at == offset + 1 + leb.v.bytes_read
             length == leb.v.value
             chunk == [offset |-> data_at,
                       chunk_type |-> chunk_type,
                       is_keyframe |-> is_keyframe,
                       data_size |-> length,
                       timestamp_ms |-> IF header.some
                                        THEN header.v.start_timestamp_ms + (frame_index * 16)
                                        ELSE 0,
                       frame_index |-> frame_index]
             indexed == is_keyframe /\ chunk_type \in VisualBands
         IN  IF tag = BAND_END
             THEN [res |-> Ok(TRUE), all_chunks |-> all, keyframe_chunks |-> keys]
             ELSE IF ~leb.ok
             THEN [res |-> leb, all_chunks |-> all, keyframe_chunks |-> keys]
             ELSE IF data_at + length > Len(mmap)
             THEN [res |-> Err("InvalidFormat", "Chunk extends beyond file"),
                   all_chunks |-> all, keyframe_chunks |-> keys]
             ELSE scan_chunks_loop(mmap, header, data_at + length + 4,
                                   IF indexed THEN frame_index + 1 ELSE frame_index,
                                   Append(all, chunk),
                                   IF indexed THEN Append(keys, chunk) ELSE keys)

\* PsiArchiveReader::scan_chunks: from offset 18, indices cleared first
scan_chunks(mmap, header) == scan_chunks_loop(mmap, header, 18, 0, <<>>, <<>>)

\* PsiArchiveReader::open on the file at the reader's path: [res, reader]
open(rd, file) ==
    LET hdr == read_header(file.bytes)
        rd1 == [rd EXCEPT !.header = Some(hdr.v)]
        scan == scan_chunks(file.bytes, rd1.header)
        rd2 == [rd1 EXCEPT !.all_chunks = scan.all_chunks,
                           !.keyframe_chunks = scan.keyframe_chunks]
        rd3 == IF scan.all_chunks # <<>>
               THEN [rd2 EXCEPT !.duration_ms =
                                    scan.all_chunks[Len(scan.all_chunks)].timestamp_ms]
               ELSE rd2
    IN  IF ~file.exists
        THEN [res |-> Err("Io", "NotFound"), reader |-> rd]
        ELSE IF ~hdr.ok
        THEN [res |-> hdr, reader |-> rd]
        ELSE IF ~scan.res.ok
        THEN [res |-> scan.res, reader |-> rd2]
        ELSE [res |-> Ok(TRUE), reader |-> [rd3 EXCEPT !.mmap = Some(file.bytes)]]

\* find_keyframe_before: the last keyframe chunk with frame_index <= the target
find_keyframe_before(keys, frame_index) ==
    LET hits == {k \in 1..Len(keys) : keys[k].frame_index <= frame_index}
    IN  IF hits = {} THEN None
        ELSE Some(keys[CHOOSE k \in hits : \A j \in hits : j <= k])

\* find_keyframe_at: the first keyframe chunk with exactly that frame_index
find_keyframe_at(keys, frame_index) ==
    LET hits == {k \in 1..Len(keys) : keys[k].frame_index = frame_index}
    IN  IF hits = {} THEN None
        ELSE Some(keys[CHOOSE k \in hits : \A j \in hits : k <= j])

\* PsiArchiveReader::decompress_chunk: the payload bytes, as stored
decompress_chunk(rd, chunk) ==
    IF rd.mmap.some
    THEN Ok(Slice(rd.mmap.v, chunk.offset, chunk.offset + chunk.data_size))
    ELSE Err("InvalidFormat", "Archive not open")

\* the `i16::from_le_bytes([data[offset], data[offset + 1]])` loops: n values
\* from value position `first`
UnpackI16s(data, first, n) ==
    [i \in 1..n |-> I16FromLeBytes(ByteAt(data, (first + i - 1) * 2),
                                   ByteAt(data, ((first + i - 1) * 2) + 1))]

\* Frame::new followed by the field assignments and apply_int16_*
MakeReaderFrame(frame_index, timestamp_ms, is_keyframe, band, phases, amplitudes, emotions) ==
    [timestamp_ms |-> timestamp_ms,
     frame_index |-> frame_index,
     phases |-> [i \in 1..oscillator_count |-> apply_int16_phase(phases[i])],
     amplitudes |-> [i \in 1..oscillator_count |-> apply_int16_amplitude(amplitudes[i])],
     emotions |-> [i \in 1..emotion_dimensions |-> apply_int16_amplitude(emotions[i])],
     is_keyframe |-> is_keyframe,
     band |-> band]

\* PsiArchiveReader::decode_keyframe
decode_keyframe(rd, chunk) ==
    LET data == decompress_chunk(rd, chunk)
    IN  IF ~data.ok THEN data
        ELSE IF Len(data.v) < (oscillator_count * 2) + (oscillator_count * 2)
                                + (emotion_dimensions * 2)
        THEN Err("InvalidFormat", "Keyframe data too small")
        ELSE Ok(MakeReaderFrame(chunk.frame_index, chunk.timestamp_ms, TRUE, chunk.chunk_type,
                                UnpackI16s(data.v, 0, oscillator_count),
                                UnpackI16s(data.v, oscillator_count, oscillator_count),
                                UnpackI16s(data.v, oscillator_count * 2, emotion_dimensions)))

\* DeltaDecoder::apply_phase_deltas / apply_amplitude_deltas / apply_emotion_deltas
apply_deltas(dec, phase_deltas, amplitude_deltas, emotion_deltas) ==
    [last_phases |-> [i \in 1..oscillator_count |->
                          apply_phase_delta(dec.last_phases[i], phase_deltas[i])],
     last_amplitudes |-> [i \in 1..oscillator_count |->
                              SaturatingAddI16(dec.last_amplitudes[i], amplitude_deltas[i])],
     last_emotions |-> [i \in 1..emotion_dimensions |->
                            SaturatingAddI16(dec.last_emotions[i], emotion_deltas[i])]]

RECURSIVE apply_delta_chunks(_, _, _, _)
\* read_frame, `for chunk_index in (start_chunk_index + 1)..self.all_chunks.len()`;
\* chunk_index is 0-based; [res, dec]
apply_delta_chunks(rd, chunk_index, frame_index, dec) ==
    IF chunk_index >= Len(rd.all_chunks)
    THEN [res |-> Ok(TRUE), dec |-> dec]
    ELSE LET chunk == rd.all_chunks[chunk_index + 1]
             delta_data == decompress_chunk(rd, chunk)
         IN  IF chunk.chunk_type # BAND_MICRO
             THEN apply_delta_chunks(rd, chunk_index + 1, frame_index, dec)
             ELSE IF chunk.frame_index > frame_index
             THEN [res |-> Ok(TRUE), dec |-> dec]
             ELSE IF ~delta_data.ok
             THEN [res |-> delta_data, dec |-> dec]
             ELSE IF Len(delta_data.v) < (oscillator_count + emotion_dimensions) * 2
             THEN [res |-> Err("InvalidFormat", "Delta data too small"), dec |-> dec]
             ELSE apply_delta_chunks(rd, chunk_index + 1, frame_index,
                      apply_deltas(dec,
                          UnpackI16s(delta_data.v, 0, oscillator_count),
                          UnpackI16s(delta_data.v, oscillator_count, oscillator_count),
                          UnpackI16s(delta_data.v, oscillator_count * 2, emotion_dimensions)))

\* read_frame, cache insertion: push, then drop the oldest entry over the bound
cache_insert(cache, frame_index, frame) ==
    LET pushed == Append(cache, <<frame_index, frame>>)
    IN  IF Len(pushed) > max_keyframe_cache THEN Tail(pushed) ELSE pushed

RECURSIVE read_frame(_, _)
\* PsiArchiveReader::read_frame: [res, reader]
read_frame(rd, frame_index) ==
    LET at == find_keyframe_at(rd.keyframe_chunks, frame_index)
        cached == {k \in 1..Len(rd.keyframe_cache) : rd.keyframe_cache[k][1] = frame_index}
        decoded == decode_keyframe(rd, at.v)
        before == find_keyframe_before(rd.keyframe_chunks, frame_index)
        keyframe == read_frame(rd, before.v.frame_index)
        dec0 == [last_phases |-> [i \in 1..oscillator_count |->
                                      phase_to_int16(keyframe.res.v.phases[i])],
                 last_amplitudes |-> [i \in 1..oscillator_count |->
                                          amplitude_to_int16(keyframe.res.v.amplitudes[i])],
                 last_emotions |-> [i \in 1..emotion_dimensions |->
                                        amplitude_to_int16(keyframe.res.v.emotions[i])]]
        rd1 == [keyframe.reader EXCEPT !.delta_decoder = dec0]
        starts == {k \in 1..Len(rd.all_chunks) :
                       rd.all_chunks[k].frame_index = before.v.frame_index}
        start_chunk_index == (CHOOSE k \in starts : \A j \in starts : k <= j) - 1
        applied == apply_delta_chunks(rd1, start_chunk_index + 1, frame_index, dec0)
        rd2 == [rd1 EXCEPT !.delta_decoder = applied.dec]
    IN  IF at.some
        THEN IF cached # {}
             THEN [res |-> Ok(rd.keyframe_cache[CHOOSE k \in cached :
                                                    \A j \in cached : k <= j][2]),
                   reader |-> rd]
             ELSE IF ~decoded.ok
             THEN [res |-> decoded, reader |-> rd]
             ELSE [res |-> decoded,
                   reader |-> [rd EXCEPT !.keyframe_cache =
                                             cache_insert(@, frame_index, decoded.v)]]
        ELSE IF ~before.some
        THEN [res |-> Err("SeekError", "No keyframe found before frame"), reader |-> rd]
        ELSE IF ~keyframe.res.ok
        THEN [res |-> keyframe.res, reader |-> keyframe.reader]
        ELSE IF starts = {}
        THEN [res |-> Err("SeekError", "Could not find keyframe chunk in index"),
              reader |-> rd1]
        ELSE IF ~applied.res.ok
        THEN [res |-> applied.res, reader |-> rd2]
        ELSE [res |-> Ok(MakeReaderFrame(frame_index,
                             IF rd.header.some
                             THEN rd.header.v.start_timestamp_ms + (frame_index * 16)
                             ELSE 0,
                             FALSE, BAND_MICRO,
                             applied.dec.last_phases, applied.dec.last_amplitudes,
                             applied.dec.last_emotions)),
              reader |-> rd2]

\* PsiArchiveReader::frame_count
frame_count(rd) ==
    IF Len(rd.all_chunks) = 0 THEN 0
    ELSE rd.all_chunks[Len(rd.all_chunks)].frame_index + 1

\* The reader is used on the session's archive once the writer thread has
\* exited.

\* PsiArchiveReader::open
ReaderOpen ==
    /\ wt_pc = "done"
    /\ ~r_open.some
    /\ LET r == open(reader, disk[FinalPath])
       IN  /\ reader' = r.reader
           /\ r_open' = Some(r.res)
    /\ UNCHANGED <<coreVars, codecVars, fsVars, recVars, wtVars, histVars, r_read, h_corrupt>>

\* PsiArchiveReader::read_frame(frame_index)
ReaderReadFrame(frame_index) ==
    /\ wt_pc = "done"
    /\ r_open.some
    /\ LET r == read_frame(reader, frame_index)
       IN  /\ reader' = r.reader
           /\ r_read' = Some([frame_index |-> frame_index, res |-> r.res])
    /\ UNCHANGED <<coreVars, codecVars, fsVars, recVars, wtVars, histVars, r_open, h_corrupt>>

\* The environment alters one byte of a finalized archive before it is opened.
CorruptArchive(offset) ==
    /\ wt_pc = "done"
    /\ h_finish = "ok"
    /\ h_ioerr = "none"
    /\ ~h_corrupt.some
    /\ ~r_open.some
    /\ disk[FinalPath].exists
    /\ offset < Len(disk[FinalPath].bytes)
    /\ disk' = [disk EXCEPT ![FinalPath].bytes[offset + 1] = 255 - @]
    /\ h_corrupt' = Some([offset |-> offset, pristine |-> disk[FinalPath].bytes])
    /\ UNCHANGED <<coreVars, codecVars, w, recVars, wtVars, histVars, reader, r_open, r_read>>

-----------------------------------------------------------------------------
(* alan_core: the f64 values of the TRS controller.                        *)
(* A finite f64 is a whole number of quanta of 1/F64One; a result whose    *)
(* magnitude exceeds F64Max overflows to an infinity as in IEEE-754, and   *)
(* the invalid operations (inf - inf, 0 * inf) give NaN.  The three        *)
(* non-finite values are encoded above and below the finite range, so the  *)
(* order of the integers is the order of the floats.                       *)

F64One == 2
F64Max == 1073741823
F64PosInf == F64Max + 1
F64NegInf == -(F64Max + 1)
F64NaN == F64Max + 2

F64Half == F64One \div 2

Abs(x) == IF x < 0 THEN -x ELSE x

F64IsNaN(x) == x = F64NaN
F64IsInfinite(x) == x = F64PosInf \/ x = F64NegInf
F64IsFinite(x) == -F64Max <= x /\ x <= F64Max

F64Overflow(r) ==
    IF r > F64Max THEN F64PosInf ELSE IF r < -F64Max THEN F64NegInf ELSE r

F64Neg(x) == IF F64IsNaN(x) THEN F64NaN ELSE -x
F64Abs(x) == IF F64IsNaN(x) THEN F64NaN ELSE Abs(x)

\* the comparison operators of f64: every comparison with NaN is false
F64Lt(a, b) == ~F64IsNaN(a) /\ ~F64IsNaN(b) /\ a < b
F64Le(a, b) == ~F64IsNaN(a) /\ ~F64IsNaN(b) /\ a <= b
F64Gt(a, b) == F64Lt(b, a)
F64Ge(a, b) == F64Le(b, a)

\* f64::max: a NaN operand is ignored
F64MaxOf(a, b) ==
    IF F64IsNaN(a) THEN b ELSE IF F64IsNaN(b) THEN a ELSE IF a < b THEN b ELSE a

F64Add(a, b) ==
    IF F64IsNaN(a) \/ F64IsNaN(b) THEN F64NaN
    ELSE IF F64IsInfinite(a)
         THEN (IF F64IsInfinite(b) /\ a # b THEN F64NaN ELSE a)
    ELSE IF F64IsInfinite(b) THEN b
    ELSE F64Overflow(a + b)

F64Sub(a, b) == F64Add(a, F64Neg(b))

\* n / d for n >= 0, d > 0, rounded to nearest, ties to even
RoundHalfEven(n, d) ==
    LET q == n \div d
        r == n % d
    IN IF 2 * r > d \/ (2 * r = d /\ q % 2 = 1) THEN q + 1 ELSE q

F64Mul(a, b) ==
    IF F64IsNaN(a) \/ F64IsNaN(b) THEN F64NaN
    ELSE LET neg == (a < 0) # (b < 0)
             inf == IF neg THEN F64NegInf ELSE F64PosInf
         IN IF F64IsInfinite(a) \/ F64IsInfinite(b)
            THEN (IF a = 0 \/ b = 0 THEN F64NaN ELSE inf)
            ELSE IF a = 0 \/ b = 0 THEN 0
            ELSE IF Abs(a) > (F64Max * F64One) \div Abs(b) THEN inf
            ELSE LET m == RoundHalfEven(Abs(a) * Abs(b), F64One)
                 IN IF neg THEN -m ELSE m

(* The caller's time `t` and the targets of integrate_to are f64 values    *)
(* that may differ from a grid value by less than the tolerance 1e-10 of   *)
(* integrate_to: such a value is [c |-> grid value, f |-> residue], the    *)
(* residue counted in units of 2^-35 (2.9e-11), zero when c is not finite. *)
TimeResidueTolerance == 3   \* |f| * 2^-35 < 1e-10  iff  |f| <= 3

Time(c, f) == [c |-> c, f |-> IF F64IsFinite(c) THEN f ELSE 0]
TimeIsFinite(a) == F64IsFinite(a.c)
TimeNeg(a) == Time(F64Neg(a.c), -a.f)
TimeSub(a, b) == Time(F64Sub(a.c, b.c), a.f - b.f)
TimeAddDt(a, dt) == Time(F64Add(a.c, dt), a.f)
TimeIsNegative(a) == F64Lt(a.c, 0) \/ (a.c = 0 /\ a.f < 0)
TimeAbs(a) == IF TimeIsNegative(a) THEN TimeNeg(a) ELSE a
\* a > b
TimeGt(a, b) == F64Gt(a.c, b.c) \/ (~F64IsNaN(a.c) /\ a.c = b.c /\ a.f > b.f)
\* d < 1e-10, for d = |x|
TimeBelowTolerance(d) == d.c = 0 /\ d.f <= TimeResidueTolerance

\* the largest usize this model tells apart: `as usize` saturates, and the
\* step counts it produces are only compared with the step limit
UsizeMax == 2147483647

\* (d / dt).ceil() as usize, for d = |x|  (the float-to-int cast saturates
\* and sends NaN to 0)
CeilDivAsUsize(d, dt) ==
    IF F64IsNaN(d.c) \/ F64IsNaN(dt) THEN 0
    ELSE IF F64IsInfinite(d.c)
         THEN (IF F64IsInfinite(dt) \/ dt < 0 THEN 0 ELSE UsizeMax)
    ELSE IF F64IsInfinite(dt) THEN 0
    ELSE IF dt = 0 THEN (IF d.c = 0 /\ d.f = 0 THEN 0 ELSE UsizeMax)
    ELSE IF dt < 0 THEN 0
    ELSE IF d.f > 0 THEN (d.c \div dt) + 1
    ELSE (d.c + dt - 1) \div dt

-----------------------------------------------------------------------------
(* alan_core: TrsOde, the time-reversal-symmetric controller               *)

\* TrsStats::default
TrsStatsDefault ==
    [trs_loss |-> 0, last_dt |-> 0, steps |-> 0, total_time |-> 0,
     max_position_error |-> 0, max_momentum_error |-> 0]

\* TrsOde::new / with_params: the parameters are taken as given
TrsOdeNew(dt, lambda_trs) ==
    [dt |-> dt, lambda_trs |-> lambda_trs, prev_state |-> None, state_dim |-> 0,
     stats |-> TrsStatsDefault]

\* Outcome of an operation on (controller, t, S): `taken` counts the steps
\* that succeeded inside it, `at` is (t, S) as the last step attempted found them.
OdeOutcome(c, t, S, res, taken, at) ==
    [c |-> c, t |-> t, S |-> S, res |-> res, taken |-> taken, at |-> at]

StepLimit == 1000000000

\* the dynamics of the controller's tests: d2x/dt2 = -x
harmonic_force(t, S) ==
    [i \in 1..Len(S) |->
       IF i <= Len(S) \div 2 THEN S[i + (Len(S) \div 2)]
       ELSE IF i <= 2 * (Len(S) \div 2) THEN F64Neg(S[i - (Len(S) \div 2)])
       ELSE 0]

calculate_derivative(c, t, S) == harmonic_force(t, S)

InvalidDt(dt) == ~F64IsFinite(dt) \/ F64Le(dt, 0) \/ F64Ge(dt, F64One)

\* set_dt with the upper limit itself let through
set_dt_accepts_one(c, dt) ==
    IF ~F64IsFinite(dt) \/ F64Le(dt, 0) \/ F64Gt(dt, F64One)
    THEN [c |-> c, res |-> "InvalidParameter"]
    ELSE [c |-> [c EXCEPT !.dt = dt, !.stats.last_dt = dt], res |-> "Ok"]

set_dt(c, dt) ==
    IF InvalidDt(dt)
    THEN [c |-> c, res |-> "InvalidParameter"]
    ELSE [c |-> [c EXCEPT !.dt = dt, !.stats.last_dt = dt], res |-> "Ok"]

set_lambda_trs(c, lambda_trs) ==
    IF F64Lt(lambda_trs, 0)
    THEN [c |-> c, res |-> "InvalidParameter"]
    ELSE [c |-> [c EXCEPT !.lambda_trs = lambda_trs], res |-> "Ok"]

initialize(c, S) ==
    [c EXCEPT !.state_dim = Len(S), !.prev_state = None,
              !.stats = [TrsStatsDefault EXCEPT !.last_dt = c.dt]]

reset_stats(c) ==
    [c EXCEPT !.stats = [TrsStatsDefault EXCEPT !.last_dt = c.dt]]

\* step 1: `state[pos] += 0.5 * dt * state[vel]` on the position half
verlet_half_step(S, dt) ==
    [i \in 1..Len(S) |->
       IF i <= Len(S) \div 2
       THEN F64Add(S[i], F64Mul(F64Mul(dt, F64Half), S[i + (Len(S) \div 2)]))
       ELSE S[i]]

\* step 3: `state[vel] += dt * derivative[vel]` on the momentum half
verlet_kick(S2, derivative, dt) ==
    [i \in 1..Len(S2) |->
       IF (Len(S2) \div 2) < i /\ i <= 2 * (Len(S2) \div 2)
       THEN F64Add(S2[i], F64Mul(dt, derivative[i]))
       ELSE S2[i]]

\* step 4: `state[pos] = half_step[pos] + dt * state[vel]`
verlet_full_step(half_step, S3, dt) ==
    [i \in 1..Len(S3) |->
       IF i <= Len(S3) \div 2
       THEN F64Add(half_step[i], F64Mul(dt, S3[i + (Len(S3) \div 2)]))
       ELSE S3[i]]

\* the NaN/Inf check on the updated state, then `*t += dt` and prev_state
verlet_finish(c1, t, S, S4) ==
    IF \E i \in 1..Len(S4) : F64IsNaN(S4[i]) \/ F64IsInfinite(S4[i])
    THEN OdeOutcome(c1, t, S4, "NumericalInstability", 0, [t |-> t, S |-> S])
    ELSE OdeOutcome([c1 EXCEPT !.prev_state = Some(S4)], TimeAddDt(t, c1.dt), S4,
                    "Ok", 1, [t |-> t, S |-> S])

step_velocity_verlet(c, t, S) ==
    verlet_finish(IF c.prev_state.some THEN c ELSE [c EXCEPT !.prev_state = Some(S)],
                  t, S,
                  verlet_full_step(S,
                                   verlet_kick(verlet_half_step(S, c.dt),
                                               calculate_derivative(c, t, S), c.dt),
                                   c.dt))

\* the statistics of one more step of size dt
count_step(r, dt) ==
    [r EXCEPT !.c.stats.steps = @ + 1,
              !.c.stats.last_dt = dt,
              !.c.stats.total_time = F64Add(@, dt)]

\* the `?` on the result of the step, then the statistics
step_symplectic_stats(r, dt) == IF r.res = "Ok" THEN count_step(r, dt) ELSE r

\* step_symplectic updating the statistics whatever the result of the step
step_symplectic_counts_failures(c, t, S) ==
    IF InvalidDt(c.dt)
    THEN OdeOutcome(c, t, S, "InvalidParameter", 0, [t |-> t, S |-> S])
    ELSE count_step(step_velocity_verlet(c, t, S), c.dt)

step_symplectic(c, t, S) ==
    IF InvalidDt(c.dt)
    THEN OdeOutcome(c, t, S, "InvalidParameter", 0, [t |-> t, S |-> S])
    ELSE step_symplectic_stats(step_velocity_verlet(c, t, S), c.dt)

reverse(t, S) ==
    IF Len(S) % 2 # 0
    THEN [t |-> TimeNeg(t), S |-> S, res |-> "DimensionMismatch"]
    ELSE [t |-> TimeNeg(t),
          S |-> [i \in 1..Len(S) |-> IF i > Len(S) \div 2 THEN F64Neg(S[i]) ELSE S[i]],
          res |-> "Ok"]

RECURSIVE integrate_loop(_, _, _, _, _)
RECURSIVE integrate_after_step(_, _, _)
\* `for _ in 0..steps { self.step_symplectic(t, state)?; }`
integrate_loop(c, t, S, steps, taken) ==
    IF steps = 0
    THEN OdeOutcome(c, t, S, "Ok", taken, [t |-> t, S |-> S])
    ELSE integrate_after_step(step_symplectic(c, t, S), steps, taken)

integrate_after_step(r, steps, taken) ==
    IF r.res # "Ok"
    THEN [r EXCEPT !.taken = taken]
    ELSE integrate_loop(r.c, r.t, r.S, steps - 1, taken + 1)

integrate(c, t, S, steps) ==
    IF steps > StepLimit
    THEN OdeOutcome(c, t, S, "InvalidParameter", 0, [t |-> t, S |-> S])
    ELSE integrate_loop(c, t, S, steps, 0)

\* the second `self.reverse(t, state)?` of integrate_backward
backward_restore(r2, r3) == OdeOutcome(r2.c, r3.t, r3.S, r3.res, r2.taken, r2.at)

\* `self.integrate(t, state, steps)?` of integrate_backward
backward_integrated(r2) ==
    IF r2.res # "Ok" THEN r2 ELSE backward_restore(r2, reverse(r2.t, r2.S))

\* the first `self.reverse(t, state)?` of integrate_backward
backward_reversed(c, t, S, r1, steps) ==
    IF r1.res # "Ok"
    THEN OdeOutcome(c, r1.t, r1.S, r1.res, 0, [t |-> t, S |-> S])
    ELSE backward_integrated(integrate(c, r1.t, r1.S, steps))

integrate_backward(c, t, S, steps) ==
    IF steps > StepLimit
    THEN OdeOutcome(c, t, S, "InvalidParameter", 0, [t |-> t, S |-> S])
    ELSE backward_reversed(c, t, S, reverse(t, S), steps)

\* f64 sum of squares and largest magnitude of the entries of a sequence
RECURSIVE SumSquares(_, _)
SumSquares(xs, n) ==
    IF n = 0 THEN 0 ELSE F64Add(SumSquares(xs, n - 1), F64Mul(xs[n], xs[n]))

RECURSIVE MaxAbs(_, _)
MaxAbs(xs, n) ==
    IF n = 0 THEN 0 ELSE F64MaxOf(MaxAbs(xs, n - 1), F64Abs(xs[n]))

\* trs_loss takes &self and writes the two max-error statistics through a
\* cast of the shared reference
trs_loss(c, orig, rolled) ==
    LET dim == Len(orig)
        half_dim == dim \div 2
    IN IF dim # Len(rolled) \/ dim % 2 # 0
       THEN [c |-> c, loss |-> F64PosInf]
       ELSE LET diffs == [i \in 1..half_dim |-> F64Sub(orig[i], rolled[i])]
                sums == [i \in 1..half_dim |->
                           F64Add(orig[i + half_dim], rolled[i + half_dim])]
                pos_error == SumSquares(diffs, half_dim)
                mom_error == SumSquares(sums, half_dim)
                max_pos_error == MaxAbs(diffs, half_dim)
                max_mom_error == MaxAbs(sums, half_dim)
            IN [c |-> [c EXCEPT
                         !.stats.max_position_error = F64MaxOf(@, max_pos_error),
                         !.stats.max_momentum_error = F64MaxOf(@, max_mom_error)],
                loss |-> F64Add(pos_error, F64Mul(c.lambda_trs, mom_error))]

\* the last lines of check_reversibility: the loss, stored in the statistics
reversibility_loss(fwd, bwd, l) ==
    [c |-> [l.c EXCEPT !.stats.trs_loss = l.loss], res |-> "Ok", loss |-> l.loss,
     taken |-> fwd.taken + bwd.taken, rolled |-> bwd.S]

\* check_reversibility going on to the loss when the backward phase failed
reversibility_backward_ignores_error(fwd, bwd, init_state) ==
    reversibility_loss(fwd, bwd, trs_loss(bwd.c, init_state, bwd.S))

\* `self.integrate_backward(&mut t, &mut state, steps)?` of check_reversibility
reversibility_backward(fwd, bwd, init_state) ==
    IF bwd.res # "Ok"
    THEN [c |-> bwd.c, res |-> bwd.res, loss |-> 0,
          taken |-> fwd.taken + bwd.taken, rolled |-> bwd.S]
    ELSE reversibility_loss(fwd, bwd, trs_loss(bwd.c, init_state, bwd.S))

\* `self.integrate(&mut t, &mut state, steps)?` of check_reversibility
reversibility_forward(fwd, init_state, steps) ==
    IF fwd.res # "Ok"
    THEN [c |-> fwd.c, res |-> fwd.res, loss |-> 0, taken |-> fwd.taken,
          rolled |-> fwd.S]
    ELSE reversibility_backward(fwd, integrate_backward(fwd.c, fwd.t, fwd.S, steps),
                                init_state)

\* check_reversibility works on clones of the caller's state and time
check_reversibility(c, t, init_state, steps) ==
    IF steps > StepLimit
    THEN [c |-> c, res |-> "InvalidParameter", loss |-> 0, taken |-> 0,
          rolled |-> init_state]
    ELSE reversibility_forward(integrate(c, t, init_state, steps), init_state, steps)

\* "Ensure exact target time": `*t = target_t` after a successful integration
integrate_to_arrive(r, target_t) ==
    IF r.res # "Ok" THEN r ELSE [r EXCEPT !.t = target_t]

\* the direction and the number of steps, `(|target_t - t| / dt).ceil() as usize`
integrate_to_steps(c, t, S, target_t, steps) ==
    IF steps > StepLimit
    THEN OdeOutcome(c, t, S, "InvalidParameter", 0, [t |-> t, S |-> S])
    ELSE integrate_to_arrive(IF TimeGt(target_t, t)
                             THEN integrate(c, t, S, steps)
                             ELSE integrate_backward(c, t, S, steps),
                             target_t)

integrate_to_distance(c, t, S, target_t, distance) ==
    IF TimeBelowTolerance(distance)
    THEN OdeOutcome(c, t, S, "Ok", 0, [t |-> t, S |-> S])
    ELSE IF ~TimeIsFinite(target_t)
    THEN OdeOutcome(c, t, S, "InvalidParameter", 0, [t |-> t, S |-> S])
    ELSE integrate_to_steps(c, t, S, target_t, CeilDivAsUsize(distance, c.dt))

integrate_to(c, t, S, target_t) ==
    integrate_to_distance(c, t, S, target_t, TimeAbs(TimeSub(target_t, t)))

-----------------------------------------------------------------------------
(* The caller of the controller: it owns t and S, and makes one call at a  *)
(* time.  ode_call keeps the call, its result, and (c, t, S) as the call   *)
(* found them.                                                             *)

MaxOdeCalls == 2

\* dt and lambda_trs as given to TrsOde::new, which does not validate them
CtorDts == {F64Half, 0, F64One, -F64Half, F64NaN}
CtorLambda == 1
SetDtInputs == {F64Half, 0, F64One, -F64Half, F64NaN, F64PosInf}
SetLambdaInputs == {-1, 0, F64One, F64NegInf}
StepCounts == {0, 1, 2, StepLimit + 1}
\* S0 of the tests, a state close to the largest finite f64, an odd-length state
InitialStates == {<<F64One, 0>>, <<F64Max, F64Max>>, <<F64One, 0, 0>>}
\* targets of integrate_to: within the tolerance of t, one residue beyond
\* it, a little more than one step ahead, two steps behind, far away, and
\* non-finite
TargetTimes(t) ==
    {Time(t.c, t.f + 1), Time(t.c, t.f + TimeResidueTolerance + 1),
     Time(F64Add(t.c, F64Half), t.f + 1), Time(F64Sub(t.c, F64One), 0),
     Time(F64Max, 0), Time(F64PosInf, 0), Time(F64NaN, 0)}

StepOps == {"step_symplectic", "integrate", "integrate_backward", "integrate_to",
            "check_reversibility"}

OdeCall(op, arg, target, res, taken, ret, at, rolled) ==
    [op |-> op, arg |-> arg, target |-> target, res |-> res, taken |-> taken,
     ret |-> ret, pre |-> [c |-> ode, t |-> ode_t, S |-> ode_S], at |-> at,
     rolled |-> rolled, k |-> ode_call.k + 1]

OdeIdle ==
    /\ ode = TrsOdeNew(F64Half, CtorLambda)
    /\ ode_t = Time(0, 0)
    /\ ode_S = <<F64One, 0>>
    /\ ode_call = [op |-> "none", arg |-> 0, target |-> Time(0, 0), res |-> "Ok",
                   taken |-> 0, ret |-> 0,
                   pre |-> [c |-> TrsOdeNew(F64Half, CtorLambda), t |-> Time(0, 0),
                            S |-> <<F64One, 0>>],
                   at |-> [t |-> Time(0, 0), S |-> <<F64One, 0>>],
                   rolled |-> <<F64One, 0>>, k |-> MaxOdeCalls]

OdeInit ==
    /\ \E dt \in CtorDts : ode = TrsOdeNew(dt, CtorLambda)
    /\ ode_t = Time(0, 0)
    /\ ode_S \in InitialStates
    /\ ode_call = [op |-> "new", arg |-> 0, target |-> Time(0, 0), res |-> "Ok",
                   taken |-> 0, ret |-> 0,
                   pre |-> [c |-> ode, t |-> ode_t, S |-> ode_S],
                   at |-> [t |-> ode_t, S |-> ode_S],
                   rolled |-> ode_S, k |-> 0]

OdeOthers == <<codecVars, fsVars, recVars, wtVars, histVars, rdVars, oscVars, snapVars, ffiVars, bindVars, wireVars, phaseVars, playerVars>>

OdeHere == [t |-> ode_t, S |-> ode_S]

OdeSetDt(dt) ==
    /\ ode_call.k < MaxOdeCalls
    /\ LET r == set_dt(ode, dt)
       IN /\ ode' = r.c
          /\ ode_call' = OdeCall("set_dt", dt, ode_t, r.res, 0, 0, OdeHere, ode_S)
    /\ UNCHANGED <<ode_t, ode_S, OdeOthers>>

OdeSetLambdaTrs(lambda_trs) ==
    /\ ode_call.k < MaxOdeCalls
    /\ LET r == set_lambda_trs(ode, lambda_trs)
       IN /\ ode' = r.c
          /\ ode_call' = OdeCall("set_lambda_trs", lambda_trs, ode_t, r.res, 0, 0,
                                 OdeHere, ode_S)
    /\ UNCHANGED <<ode_t, ode_S, OdeOthers>>

OdeInitialize ==
    /\ ode_call.k < MaxOdeCalls
    /\ ode' = initialize(ode, ode_S)
    /\ ode_call' = OdeCall("initialize", 0, ode_t, "Ok", 0, 0, OdeHere, ode_S)
    /\ UNCHANGED <<ode_t, ode_S, OdeOthers>>

OdeResetStats ==
    /\ ode_call.k < MaxOdeCalls
    /\ ode' = reset_stats(ode)
    /\ ode_call' = OdeCall("reset_stats", 0, ode_t, "Ok", 0, 0, OdeHere, ode_S)
    /\ UNCHANGED <<ode_t, ode_S, OdeOthers>>

OdeApply(op, arg, target, r) ==
    /\ ode' = r.c
    /\ ode_t' = r.t
    /\ ode_S' = r.S
    /\ ode_call' = OdeCall(op, arg, target, r.res, r.taken, 0, r.at, r.S)
    /\ UNCHANGED OdeOthers

\* check_reversibility takes &mut self and leaves the caller's t and S alone
OdeApplyCheck(steps, r) ==
    /\ ode' = r.c
    /\ ode_call' = OdeCall("check_reversibility", steps, ode_t, r.res, r.taken,
                           r.loss, OdeHere, r.rolled)
    /\ UNCHANGED <<ode_t, ode_S, OdeOthers>>

OdeStepSymplectic ==
    /\ ode_call.k < MaxOdeCalls
    /\ OdeApply("step_symplectic", 1, ode_t, step_symplectic(ode, ode_t, ode_S))

OdeIntegrate(steps) ==
    /\ ode_call.k < MaxOdeCalls
    /\ OdeApply("integrate", steps, ode_t, integrate(ode, ode_t, ode_S, steps))

OdeIntegrateBackward(steps) ==
    /\ ode_call.k < MaxOdeCalls
    /\ OdeApply("integrate_backward", steps, ode_t,
                integrate_backward(ode, ode_t, ode_S, steps))

OdeIntegrateTo(target_t) ==
    /\ ode_call.k < MaxOdeCalls
    /\ OdeApply("integrate_to", 0, target_t, integrate_to(ode, ode_t, ode_S, target_t))

OdeReverse ==
    /\ ode_call.k < MaxOdeCalls
    /\ LET r == reverse(ode_t, ode_S)
       IN /\ ode_t' = r.t
          /\ ode_S' = r.S
          /\ ode_call' = OdeCall("reverse", 0, ode_t, r.res, 0, 0, OdeHere, r.S)
    /\ UNCHANGED <<ode, OdeOthers>>

\* the caller compares the state the controller remembers with its own
OdeTrsLoss ==
    /\ ode_call.k < MaxOdeCalls
    /\ ode.prev_state.some
    /\ LET r == trs_loss(ode, ode.prev_state.v, ode_S)
       IN /\ ode' = r.c
          /\ ode_call' = OdeCall("trs_loss", 0, ode_t, "Ok", 0, r.loss, OdeHere, ode_S)
    /\ UNCHANGED <<ode_t, ode_S, OdeOthers>>

OdeCheckReversibility(steps) ==
    /\ ode_call.k < MaxOdeCalls
    /\ OdeApplyCheck(steps, check_reversibility(ode, ode_t, ode_S, steps))

OdeNext ==
    \/ \E dt \in SetDtInputs : OdeSetDt(dt)
    \/ \E lambda_trs \in SetLambdaInputs : OdeSetLambdaTrs(lambda_trs)
    \/ OdeInitialize
    \/ OdeResetStats
    \/ OdeStepSymplectic
    \/ \E steps \in StepCounts : OdeIntegrate(steps)
    \/ \E steps \in StepCounts : OdeIntegrateBackward(steps)
    \/ \E target_t \in TargetTimes(ode_t) : OdeIntegrateTo(target_t)
    \/ OdeReverse
    \/ OdeTrsLoss
    \/ \E steps \in StepCounts : OdeCheckReversibility(steps)

-----------------------------------------------------------------------------
(* The f32 quantities of the oscillator network.  Phases, momenta and spin *)
(* components stay within a few units, so an f32 is held as an integer     *)
(* number of quanta of 1/FxOne with every product, quotient and root       *)
(* rounded to the nearest quantum; sums and differences are exact.         *)

FxOne == 65536

FxHalf == FxOne \div 2

\* std::f32::consts::TAU and PI in quanta
FxTau == 411775

FxPi == FxTau \div 2

FxHalfPi == (FxTau + 2) \div 4

\* the quotient q with remainder r of a division by d, to the nearest, ties to even
FxRoundQuot(q, r, d) ==
    IF 2 * r > d \/ (2 * r = d /\ q % 2 = 1) THEN q + 1 ELSE q

\* a * b for 0 <= a, b, the product taken in two limbs of a
FxMulMag(a, b) ==
    LET hi == (a \div 256) * b
        rest == ((hi % 256) * 256) + ((a % 256) * b)
    IN FxRoundQuot((hi \div 256) + (rest \div FxOne), rest % FxOne, FxOne)

FxMul(a, b) ==
    IF (a < 0) = (b < 0) THEN FxMulMag(Abs(a), Abs(b)) ELSE -FxMulMag(Abs(a), Abs(b))

\* a / b for 0 <= a and 0 < b, sixteen more binary digits in two steps
FxDivMag(a, b) ==
    LET r1 == (a % b) * 256
        r2 == (r1 % b) * 256
    IN FxRoundQuot(((a \div b) * FxOne) + ((r1 \div b) * 256) + (r2 \div b), r2 % b, b)

FxDiv(a, b) ==
    IF (a < 0) = (b < 0) THEN FxDivMag(Abs(a), Abs(b)) ELSE -FxDivMag(Abs(a), Abs(b))

\* a * FxOne - (256 * u + v)^2, for the integer root u of a
FxSqrtRem(a, u, v) == ((a - (u * u)) * FxOne) - (512 * u * v) - (v * v)

FxSqrtLow(a, u) ==
    CHOOSE v \in 0..255 : /\ FxSqrtRem(a, u, v) >= 0
                          /\ (v = 255 \/ FxSqrtRem(a, u, v + 1) < 0)

FxSqrtRound(a, u, v) ==
    IF FxSqrtRem(a, u, v) > (256 * u) + v THEN (256 * u) + v + 1 ELSE (256 * u) + v

FxSqrtFrom(a, u) == FxSqrtRound(a, u, FxSqrtLow(a, u))

\* f32::sqrt of a value below 16
FxSqrt(a) == FxSqrtFrom(a, CHOOSE u \in 0..1023 : u * u <= a /\ (u + 1) * (u + 1) > a)

\* f32::sin on [0, pi], by the rational approximation
\* 4 x (pi - x) / (5 pi^2 / 4 - x (pi - x)), exact at 0, pi/6, pi/2, 5 pi/6, pi
FxAtMostOne(q) == IF q > FxOne THEN FxOne ELSE q

FxSinArch(p) == FxAtMostOne(FxDivMag(4 * p, ((5 * FxMulMag(FxPi, FxPi)) \div 4) - p))

FxSinTurn(x) ==
    IF x <= FxPi THEN FxSinArch(FxMulMag(x, FxPi - x))
    ELSE -FxSinArch(FxMulMag(x - FxPi, (2 * FxPi) - x))

\* f32::sin for -TAU < x < TAU
FxSin(x) == IF x < 0 THEN -FxSinTurn(-x) ELSE FxSinTurn(x)

\* f32::cos for -TAU < x < TAU
FxCos(x) == FxSinTurn((Abs(x) + FxHalfPi) % (2 * FxPi))

-----------------------------------------------------------------------------
(* OscState and Oscillator (oscillator/mod.rs) with the Verlet integrator  *)
(* (oscillator/integ.rs).  Vectors are sequences indexed from 1; a spin is *)
(* a triple; the coupling matrix is a sequence of rows, which a caller can *)
(* set through set_coupling or by assigning the public field.              *)

OscStateNew(n) ==
    [n_oscillators |-> n,
     theta |-> [i \in 1..n |-> 0],
     p_theta |-> [i \in 1..n |-> 0],
     sigma |-> [i \in 1..n |-> <<0, 0, 0>>],
     p_sigma |-> [i \in 1..n |-> <<0, 0, 0>>],
     n_effective |-> 0]

\* gamma 0.1, epsilon 0.05, eta_damp 1e-4, dt_phase 0.01, dt_spin 0.00125
OscillatorNew(n) ==
    [k_matrix |-> [i \in 1..n |-> [j \in 1..n |-> 0]],
     gamma |-> 6554, epsilon |-> 3277, eta_damp |-> 7, dt_phase |-> 655,
     dt_spin |-> 82]

\* the threshold 1e-10 of the two normalizations lies below one quantum
NormSqFloor == 0

Vec3Add(a, b) == <<a[1] + b[1], a[2] + b[2], a[3] + b[3]>>

Vec3Sub(a, b) == <<a[1] - b[1], a[2] - b[2], a[3] - b[3]>>

Vec3Scale(s, a) == <<FxMul(s, a[1]), FxMul(s, a[2]), FxMul(s, a[3])>>

Vec3DivBy(a, norm) == <<FxDiv(a[1], norm), FxDiv(a[2], norm), FxDiv(a[3], norm)>>

Vec3NormSq(a) == FxMul(a[1], a[1]) + FxMul(a[2], a[2]) + FxMul(a[3], a[3])

\* the two `while` loops that bring a phase into [0, TAU)
NormalizePhase(x) == x % FxTau

\* set_coupling validates before it assigns
set_coupling(o, k) ==
    IF Len(k) # Len(o.k_matrix)
    THEN [o |-> o, res |-> "Err(row count mismatch)"]
    ELSE IF \E i \in 1..Len(k) : Len(k[i]) # Len(o.k_matrix)
    THEN [o |-> o, res |-> "Err(column count mismatch)"]
    ELSE [o |-> [o EXCEPT !.k_matrix = k], res |-> "Ok"]

\* every `k_matrix[i][j]` read by the two loops over i # j is inside its row
RowsCoverIndices(n, k_matrix) ==
    \A i \in 1..n : \A j \in 1..n : i # j => j <= Len(k_matrix[i])

RECURSIVE phase_force(_, _, _, _)
\* forces[i] after the inner loop has run over the first j oscillators
phase_force(state, k_matrix, i, j) ==
    IF j = 0 THEN 0
    ELSE IF i # j /\ k_matrix[i][j] # 0
    THEN phase_force(state, k_matrix, i, j - 1)
         + FxMul(k_matrix[i][j], FxSin(state.theta[j] - state.theta[i]))
    ELSE phase_force(state, k_matrix, i, j - 1)

calculate_phase_forces(state, k_matrix) ==
    [i \in 1..state.n_oscillators |->
       phase_force(state, k_matrix, i, state.n_oscillators)]

\* `state.p_theta[i] += 0.5 * forces[i] * dt`
phase_half_kick(p_theta, forces, dt) ==
    [i \in 1..Len(p_theta) |-> p_theta[i] + FxMul(FxMul(FxHalf, forces[i]), dt)]

\* `state.p_theta[i] *= (1.0 - damp)`
phase_damp(p_theta, damp) ==
    [i \in 1..Len(p_theta) |-> FxMul(p_theta[i], FxOne - damp)]

apply_phase_momentum(state, dt) ==
    [state EXCEPT !.theta =
       [i \in 1..state.n_oscillators |->
          NormalizePhase(state.theta[i] + FxMul(state.p_theta[i], dt))]]

\* steps 3 and 4 of integrate_phase, on the state after the full position step
phase_second_half(state, k_matrix, dt, damp) ==
    [state EXCEPT !.p_theta =
       phase_damp(phase_half_kick(state.p_theta,
                                  calculate_phase_forces(state, k_matrix), dt),
                  damp)]

integrate_phase(state, k_matrix, dt, damp) ==
    phase_second_half(
        apply_phase_momentum(
            [state EXCEPT !.p_theta =
               phase_half_kick(state.p_theta,
                               calculate_phase_forces(state, k_matrix), dt)],
            dt),
        k_matrix, dt, damp)

RECURSIVE neighbour_spin_sum(_, _, _)
\* mean_sigma after the loop has run over the first j oscillators
neighbour_spin_sum(sigma, i, j) ==
    IF j = 0 THEN <<0, 0, 0>>
    ELSE IF i # j THEN Vec3Add(neighbour_spin_sum(sigma, i, j - 1), sigma[j])
    ELSE neighbour_spin_sum(sigma, i, j - 1)

\* gamma * dev_mag * dt for the deviation of a spin from the normalized mean
spin_lattice_kick(sigma_i, mean_sigma, norm_sq, dt, gamma) ==
    IF norm_sq > NormSqFloor
    THEN FxMul(FxMul(gamma,
                     FxSqrt(Vec3NormSq(Vec3Sub(sigma_i,
                                               Vec3DivBy(mean_sigma, FxSqrt(norm_sq)))))),
               dt)
    ELSE 0

spin_lattice_term(sigma, i, mean_sigma, dt, gamma) ==
    spin_lattice_kick(sigma[i], mean_sigma, Vec3NormSq(mean_sigma), dt, gamma)

apply_spin_lattice_coupling(state, dt, gamma) ==
    [state EXCEPT !.p_theta =
       [i \in 1..state.n_oscillators |->
          IF state.n_oscillators > 1
          THEN state.p_theta[i]
               + spin_lattice_term(state.sigma, i,
                                   neighbour_spin_sum(state.sigma, i,
                                                      state.n_oscillators),
                                   dt, gamma)
          ELSE state.p_theta[i]]]

\* the contribution of neighbour j, of phase alignment cos(theta_i - theta_j)
spin_influence(phase_alignment, sigma_j, dt, epsilon) ==
    IF phase_alignment > FxHalf
    THEN Vec3Scale(FxMul(FxMul(phase_alignment, epsilon), dt), sigma_j)
    ELSE <<0, 0, 0>>

RECURSIVE spin_update(_, _, _, _, _, _)
\* spin_updates[i] after the inner loop has run over the first j oscillators
spin_update(state, k_matrix, dt, epsilon, i, j) ==
    IF j = 0 THEN <<0, 0, 0>>
    ELSE IF i # j /\ k_matrix[i][j] # 0
    THEN Vec3Add(spin_update(state, k_matrix, dt, epsilon, i, j - 1),
                 spin_influence(FxCos(state.theta[i] - state.theta[j]),
                                state.sigma[j], dt, epsilon))
    ELSE spin_update(state, k_matrix, dt, epsilon, i, j - 1)

\* `if norm_sq > 1e-10 { state.sigma[i] = new_spin / norm }`, and nothing else
renormalize(old_spin, new_spin, norm_sq) ==
    IF norm_sq > NormSqFloor THEN Vec3DivBy(new_spin, FxSqrt(norm_sq))
    ELSE old_spin

renormalized(old_spin, new_spin) == renormalize(old_spin, new_spin, Vec3NormSq(new_spin))

update_spin_alignment(state, k_matrix, dt, epsilon) ==
    [state EXCEPT !.sigma =
       [i \in 1..state.n_oscillators |->
          renormalized(state.sigma[i],
                       Vec3Add(state.sigma[i],
                               spin_update(state, k_matrix, dt, epsilon, i,
                                           state.n_oscillators)))]]

integrate_spin(state, k_matrix, dt, gamma, epsilon) ==
    update_spin_alignment(apply_spin_lattice_coupling(state, dt, gamma),
                          k_matrix, dt, epsilon)

RECURSIVE FxSum(_, _)
FxSum(xs, n) == IF n = 0 THEN 0 ELSE FxSum(xs, n - 1) + xs[n]

\* r * n for the order parameter r = sqrt(sum_cos^2 + sum_sin^2) / n
coherence(sum_cos, sum_sin, n) ==
    FxMul(FxDiv(FxSqrt(FxMul(sum_cos, sum_cos) + FxMul(sum_sin, sum_sin)), n * FxOne),
          n * FxOne)

update_n_effective(state) ==
    [state EXCEPT !.n_effective =
       coherence(FxSum([i \in 1..Len(state.theta) |-> FxCos(state.theta[i])],
                       Len(state.theta)),
                 FxSum([i \in 1..Len(state.theta) |-> FxSin(state.theta[i])],
                       Len(state.theta)),
                 state.n_oscillators)]

RECURSIVE spin_rounds(_, _, _)
\* `for _ in 0..n_spin { integrate_spin(..) }`
spin_rounds(o, state, n_spin) ==
    IF n_spin = 0 THEN state
    ELSE spin_rounds(o, integrate_spin(state, o.k_matrix, o.dt_spin, o.gamma, o.epsilon),
                     n_spin - 1)

\* A step whose number of spin rounds grows with the calls made so far.
step_counting_calls(o, state, n_spin) ==
    IF state.n_oscillators # Len(o.k_matrix)
    THEN [state |-> state, res |-> "Err(size mismatch)"]
    ELSE IF ~RowsCoverIndices(state.n_oscillators, o.k_matrix)
    THEN [state |-> state, res |-> "panic"]
    ELSE [state |-> update_n_effective(
                        spin_rounds(o,
                                    integrate_phase(state, o.k_matrix, o.dt_phase,
                                                    o.eta_damp),
                                    n_spin + osc_call.k)),
          res |-> "Ok"]

\* Oscillator::step.  The row count is the only thing it checks; a row too
\* short for an index i # j ends the first force calculation, before any
\* write to the state, with an index-out-of-bounds panic.
step(o, state, n_spin) ==
    IF state.n_oscillators # Len(o.k_matrix)
    THEN [state |-> state, res |-> "Err(size mismatch)"]
    ELSE IF ~RowsCoverIndices(state.n_oscillators, o.k_matrix)
    THEN [state |-> state, res |-> "panic"]
    ELSE [state |-> update_n_effective(
                        spin_rounds(o,
                                    integrate_phase(state, o.k_matrix, o.dt_phase,
                                                    o.eta_damp),
                                    n_spin)),
          res |-> "Ok"]

RECURSIVE run_from(_, _, _, _)
\* `for _ in 0..steps { self.step(state, n_spin)?; }` from the result r of
\* the steps made so far
run_from(o, r, steps, n_spin) ==
    IF steps = 0 \/ r.res # "Ok" THEN r
    ELSE run_from(o, step(o, r.state, n_spin), steps - 1, n_spin)

\* Oscillator::run
run(o, state, steps, n_spin) ==
    run_from(o, [state |-> state, res |-> "Ok"], steps, n_spin)

-----------------------------------------------------------------------------
(* The caller of the oscillator network: it owns the Oscillator and the    *)
(* OscState and makes one call at a time.  osc_call keeps the call, its    *)
(* result, and both objects as the call found them.                        *)

MaxOscCalls == 2

OscSizes == {1, 2, 3}

\* n_spin of Oscillator::step
SpinCounts == {0, 1, 2}

\* steps and n_spin of Oscillator::run
RunCounts == {0, 2}
RunSpinCounts == {0, 1}

CouplingStrength == FxHalf

\* a state as OscState::randomize leaves one: phases in [0, TAU), small
\* momenta, unit spins along the axes
OscStateSample(n) ==
    [n_oscillators |-> n,
     theta |-> [i \in 1..n |-> (i - 1) * FxHalf],
     p_theta |-> [i \in 1..n |-> (2 - i) * 655],
     sigma |-> [i \in 1..n |-> [c \in 1..3 |-> IF c = 1 + (i % 3) THEN FxOne ELSE 0]],
     p_sigma |-> [i \in 1..n |-> <<0, 0, 0>>],
     n_effective |-> 0]

AllToAll(n) == [i \in 1..n |-> [j \in 1..n |-> IF i = j THEN 0 ELSE CouplingStrength]]

\* square matrices of each size; two rows of three; a short second row that
\* no index reaches; a short first row
CouplingInputs ==
    {AllToAll(n) : n \in OscSizes}
    \cup {<<<<0, CouplingStrength, CouplingStrength>>,
            <<CouplingStrength, 0, CouplingStrength>>>>,
          <<<<0, CouplingStrength>>, <<CouplingStrength>>>>,
          <<<<0>>, <<CouplingStrength, 0>>>>}

OscCall(op, arg, res, n_spin) ==
    [op |-> op, arg |-> arg, res |-> res, n_spin |-> n_spin,
     pre |-> [o |-> osc, state |-> osc_state], k |-> osc_call.k + 1]

OscIdle ==
    /\ osc = OscillatorNew(1)
    /\ osc_state = OscStateNew(1)
    /\ osc_call = [op |-> "none", arg |-> <<>>, res |-> "Ok", n_spin |-> 0,
                   pre |-> [o |-> OscillatorNew(1), state |-> OscStateNew(1)],
                   k |-> MaxOscCalls]

OscInit ==
    /\ \E n \in OscSizes : osc = OscillatorNew(n)
    /\ \E n \in OscSizes : osc_state \in {OscStateNew(n), OscStateSample(n)}
    /\ osc_call = [op |-> "new", arg |-> <<>>, res |-> "Ok", n_spin |-> 0,
                   pre |-> [o |-> osc, state |-> osc_state], k |-> 0]

OscOthers == <<codecVars, fsVars, recVars, wtVars, histVars, rdVars, odeVars, snapVars, ffiVars, bindVars, wireVars, phaseVars, playerVars>>

OscApplyCoupling(k, r) ==
    /\ osc' = r.o
    /\ osc_call' = OscCall("set_coupling", k, r.res, 0)
    /\ UNCHANGED <<osc_state, OscOthers>>

OscSetCoupling(k) ==
    /\ osc_call.k < MaxOscCalls
    /\ OscApplyCoupling(k, set_coupling(osc, k))

\* `osc.k_matrix = k`: the field is public
OscAssignKMatrix(k) ==
    /\ osc_call.k < MaxOscCalls
    /\ osc' = [osc EXCEPT !.k_matrix = k]
    /\ osc_call' = OscCall("assign k_matrix", k, "Ok", 0)
    /\ UNCHANGED <<osc_state, OscOthers>>

OscApplyStep(r, n_spin) ==
    /\ osc_state' = r.state
    /\ osc_call' = OscCall("step", <<>>, r.res, n_spin)
    /\ UNCHANGED <<osc, OscOthers>>

OscStep(n_spin) ==
    /\ osc_call.k < MaxOscCalls
    /\ OscApplyStep(step(osc, osc_state, n_spin), n_spin)

OscRun(steps, n_spin) ==
    /\ osc_call.k < MaxOscCalls
    /\ osc_state' = run(osc, osc_state, steps, n_spin).state
    /\ osc_call' = OscCall("run", steps, run(osc, osc_state, steps, n_spin).res, n_spin)
    /\ UNCHANGED <<osc, OscOthers>>

OscNext ==
    \/ \E steps \in RunCounts, n_spin \in RunSpinCounts : OscRun(steps, n_spin)
    \/ \E k \in CouplingInputs : OscSetCoupling(k)
    \/ \E k \in CouplingInputs : OscAssignKMatrix(k)
    \/ \E n_spin \in SpinCounts : OscStep(n_spin)

-----------------------------------------------------------------------------
(* StateSnapshot (snapshot/mod.rs).  An f32 of a snapshot is held as the   *)
(* three fields of its bit pattern, so equality is equality of bits; a u32 *)
(* is held as its four little-endian bytes.                                *)

\* SCHEMA_CRC32 = 0x8A7B4C3D
SCHEMA_CRC32 == <<61, 76, 123, 138>>

\* VERSION = 0x0200
VERSION == 512

\* IDENTIFIER = b"ALSN"
IDENTIFIER == <<65, 76, 83, 78>>

LITTLE_ENDIAN == 0

Bits(sign, exp, mant) == [sign |-> sign, exp |-> exp, mant |-> mant]

\* f32::to_le_bytes
F32ToLeBytes(x) ==
    <<x.mant % 256, (x.mant \div 256) % 256,
      ((x.mant \div 65536) % 128) + (128 * (x.exp % 2)),
      (x.exp \div 2) + (128 * x.sign)>>

\* the four bytes read most significant first
F32FromBeBytes(b) ==
    Bits(b[1] \div 128, (2 * (b[1] % 128)) + (b[2] \div 128),
         b[4] + (256 * b[3]) + (65536 * (b[2] % 128)))

\* f32::from_le_bytes
F32FromLeBytes(b) ==
    Bits(b[4] \div 128, (2 * (b[4] % 128)) + (b[3] \div 128),
         b[1] + (256 * b[2]) + (65536 * (b[3] % 128)))

\* u16::to_le_bytes
U16ToLeBytes(x) == <<x % 256, x \div 256>>

\* `n as u32` and u32::to_le_bytes, for the lengths below 2^31 the model draws
U32ToLeBytes(n) ==
    <<n % 256, (n \div 256) % 256, (n \div 65536) % 256, n \div 16777216>>

\* u32::from_le_bytes(b) as usize > m, for m below 2^16
U32Exceeds(b, m) == b[3] # 0 \/ b[4] # 0 \/ b[1] + (256 * b[2]) > m

StateSnapshotNew(n_oscillators, dt_phase, dt_spin) ==
    [theta |-> [i \in 1..n_oscillators |-> Bits(0, 0, 0)],
     p_theta |-> [i \in 1..n_oscillators |-> Bits(0, 0, 0)],
     sigma |-> [i \in 1..n_oscillators |-> [c \in 1..3 |-> Bits(0, 0, 0)]],
     p_sigma |-> [i \in 1..n_oscillators |-> [c \in 1..3 |-> Bits(0, 0, 0)]],
     dt_phase |-> dt_phase, dt_spin |-> dt_spin, lambda |-> None]

\* the `for` loops over a Vec<f32> and over a Vec<[f32; 3]>
PackF32s(v) == Flatten([i \in 1..Len(v) |-> F32ToLeBytes(v[i])])

PackVec3s(v) == Flatten([i \in 1..Len(v) |-> PackF32s(v[i])])

\* to_bytes: the buffer of the Ok it always returns
to_bytes(s) ==
    IDENTIFIER \o U16ToLeBytes(VERSION) \o SCHEMA_CRC32 \o <<LITTLE_ENDIAN>>
    \o F32ToLeBytes(s.dt_phase) \o F32ToLeBytes(s.dt_spin)
    \o (IF s.lambda.some THEN <<1>> \o F32ToLeBytes(s.lambda.v) ELSE <<0>>)
    \o U32ToLeBytes(Len(s.theta))
    \o PackF32s(s.theta) \o PackF32s(s.p_theta)
    \o PackVec3s(s.sigma) \o PackVec3s(s.p_sigma)

\* an index past the end of the slice
IndexPanic == [ok |-> FALSE, kind |-> "panic", msg |-> "index out of bounds"]

ReadF32(bytes, idx) == F32FromLeBytes(Slice(bytes, idx, idx + 4))

ReadVec3(bytes, idx) ==
    <<ReadF32(bytes, idx), ReadF32(bytes, idx + 4), ReadF32(bytes, idx + 8)>>

\* the four extraction loops; the buffer holds offset + 32 * n bytes
from_bytes_arrays(bytes, lambda, n, offset) ==
    Ok([theta |-> [i \in 1..n |-> ReadF32(bytes, offset + (4 * (i - 1)))],
        p_theta |-> [i \in 1..n |-> ReadF32(bytes, offset + (4 * n) + (4 * (i - 1)))],
        sigma |-> [i \in 1..n |-> ReadVec3(bytes, offset + (8 * n) + (12 * (i - 1)))],
        p_sigma |-> [i \in 1..n |-> ReadVec3(bytes, offset + (20 * n) + (12 * (i - 1)))],
        dt_phase |-> ReadF32(bytes, 11), dt_spin |-> ReadF32(bytes, 15),
        lambda |-> lambda])

\* "Ensure buffer is large enough": the only size check after the first;
\* usize is 64 bits wide, so expected_size does not wrap
from_bytes_sized(bytes, lambda, count, offset) ==
    IF U32Exceeds(count, (Len(bytes) - offset) \div 32)
    THEN Err("InvalidFormat", "Buffer too small")
    ELSE from_bytes_arrays(bytes, lambda, count[1] + (256 * count[2]), offset)

\* `bytes[offset] .. bytes[offset+3]` of the oscillator count
from_bytes_count(bytes, lambda, offset) ==
    IF Len(bytes) < offset + 4 THEN IndexPanic
    ELSE from_bytes_sized(bytes, lambda, Slice(bytes, offset, offset + 4), offset + 4)

\* `bytes[11] .. bytes[19]`, then the lambda at offset 20 when flagged
from_bytes_fields(bytes) ==
    IF Len(bytes) < 20 THEN IndexPanic
    ELSE IF ByteAt(bytes, 19) # 0
    THEN IF Len(bytes) < 24 THEN IndexPanic
         ELSE from_bytes_count(bytes, Some(ReadF32(bytes, 20)), 24)
    ELSE from_bytes_count(bytes, None, 20)

from_bytes(bytes) ==
    IF Len(bytes) < 12 THEN Err("InvalidFormat", "Buffer too small")
    ELSE IF Slice(bytes, 0, 4) # IDENTIFIER
    THEN Err("InvalidFormat", "Invalid identifier")
    ELSE IF Slice(bytes, 4, 6) # U16ToLeBytes(VERSION)
    THEN Err("IncompatibleVersion", "")
    ELSE IF Slice(bytes, 6, 10) # SCHEMA_CRC32
    THEN Err("SchemaMismatch", "")
    ELSE IF ByteAt(bytes, 10) # LITTLE_ENDIAN
    THEN Err("UnsupportedEndianness", "")
    ELSE from_bytes_fields(bytes)

-----------------------------------------------------------------------------
(* The caller of the snapshot codec: it serializes a snapshot into a       *)
(* buffer, the buffer can lose its tail or have a byte changed (a file     *)
(* written in part, or by another program), and it deserializes what the   *)
(* buffer holds.                                                           *)

\* 0.0, -0.0, 1.0, pi, 0.01, 0.00125, 0.05 and a NaN
F32Palette ==
    <<Bits(0, 0, 0), Bits(1, 0, 0), Bits(0, 127, 0), Bits(0, 128, 4788187),
      Bits(0, 120, 2348810), Bits(0, 117, 2348810), Bits(0, 122, 5033165),
      Bits(0, 255, 4194304)>>

PaletteAt(i) == F32Palette[1 + (i % Len(F32Palette))]

\* n oscillators with every element written after StateSnapshot::new
SnapshotSample(n, lambda) ==
    [theta |-> [i \in 1..n |-> PaletteAt(i + 2)],
     p_theta |-> [i \in 1..n |-> PaletteAt(i + 5)],
     sigma |-> [i \in 1..n |-> [c \in 1..3 |-> PaletteAt(i + c)]],
     p_sigma |-> [i \in 1..n |-> [c \in 1..3 |-> PaletteAt((3 * i) + c)]],
     dt_phase |-> PaletteAt(4), dt_spin |-> PaletteAt(5), lambda |-> lambda]

SnapshotSizes == {0, 2}

SnapshotInputs ==
    {SnapshotSample(n, lambda) : n \in SnapshotSizes, lambda \in {None, Some(PaletteAt(6))}}
    \cup {StateSnapshotNew(1, PaletteAt(4), PaletteAt(5))}

\* lengths at which the buffer is cut: at the ends of the header fields and
\* inside those read without a check, and inside the arrays
SnapCutLengths == {0, 4, 11, 12, 19, 20, 23, 24, 27, 60}

\* offsets of the bytes that are changed: one in each field checked, the
\* lambda flag, and the byte after it
SnapFlipOffsets == {0, 4, 6, 10, 19, 20}

SnapCall(op, s, pristine, res) == [op |-> op, s |-> s, pristine |-> pristine, res |-> res]

SnapIdle ==
    /\ snap_in = <<>>
    /\ snap_call = SnapCall("none", None, FALSE, None)

SnapOthers == <<codecVars, fsVars, recVars, wtVars, histVars, rdVars, odeVars, oscVars, ffiVars, bindVars, wireVars, phaseVars, playerVars>>

SnapToBytes(s) ==
    /\ snap_in' = to_bytes(s)
    /\ snap_call' = SnapCall("to_bytes", Some(s), TRUE, None)
    /\ UNCHANGED SnapOthers

SnapTruncate(len) ==
    /\ len < Len(snap_in)
    /\ snap_in' = SubSeq(snap_in, 1, len)
    /\ snap_call' = SnapCall("truncate", snap_call.s, FALSE, None)
    /\ UNCHANGED SnapOthers

SnapFlip(offset) ==
    /\ offset < Len(snap_in)
    /\ snap_in' = [snap_in EXCEPT ![offset + 1] = 255 - @]
    /\ snap_call' = SnapCall("flip", snap_call.s, FALSE, None)
    /\ UNCHANGED SnapOthers

SnapFromBytes ==
    /\ snap_call.op # "from_bytes"
    /\ snap_call' = SnapCall("from_bytes", snap_call.s, snap_call.pristine,
                             Some(from_bytes(snap_in)))
    /\ UNCHANGED <<snap_in, SnapOthers>>

SnapNext ==
    \/ \E s \in SnapshotInputs : SnapToBytes(s)
    \/ \E len \in SnapCutLengths : SnapTruncate(len)
    \/ \E offset \in SnapFlipOffsets : SnapFlip(offset)
    \/ SnapFromBytes

-----------------------------------------------------------------------------
(* alan_core: the C ABI (ffi.rs).  SIMULATION is a `static mut` with no    *)
(* lock; the entry points read and write it directly.                      *)

ALAN_ERR_NO_ERROR == 0
ALAN_ERR_INVALID_PARAMETER == 1
ALAN_ERR_NUMERICAL_INSTABILITY == 2
ALAN_ERR_DIMENSION_MISMATCH == 3
ALAN_ERR_ENDIAN_MISMATCH == 7
ALAN_ERR_SIMULATION_ACTIVE == 8
ALAN_ERR_SIMULATION_NOT_INITIALIZED == 9

\* `err as c_int` for the AlanError values the simulation returns
AlanErrorCode(err) ==
    CASE err = "InvalidParameter" -> ALAN_ERR_INVALID_PARAMETER
      [] err = "NumericalInstability" -> ALAN_ERR_NUMERICAL_INSTABILITY
      [] err = "DimensionMismatch" -> ALAN_ERR_DIMENSION_MISMATCH

\* cfg!(target_endian = "big") of the build: a little-endian target
TargetEndianBig == FALSE

\* the bounds alan_init puts on num_oscillators and AlanSimulation::integrate on steps
MaxOscillators == 1000000
MaxIntegrateSteps == 1000000000
\* the oscillator count of alan_init_snapshot's default simulation
SnapshotOscillators == 32

\* 0.01 and 0.1 of AlanSimulation::new on the grid of the f64 model: the
\* smallest positive step, which step_symplectic accepts as 0.01 is accepted
FfiDt == F64Half
FfiLambda == F64Half

\* AlanSimulation::new; the force closure is the harmonic force
AlanSimulation_new(num_oscillators) ==
    [state |-> [i \in 1..(2 * num_oscillators) |-> 0],
     time |-> Time(0, 0),
     controller |-> TrsOdeNew(FfiDt, FfiLambda),
     num_phase_vars |-> num_oscillators]

state_size(sim) == Len(sim.state)

num_oscillators(sim) == sim.num_phase_vars

get_phases(sim) == SubSeq(sim.state, 1, sim.num_phase_vars)

AlanSimulation_set_state(sim, state) ==
    IF Len(state) # Len(sim.state)
    THEN [sim |-> sim, res |-> "DimensionMismatch"]
    ELSE [sim |-> [sim EXCEPT !.state = state], res |-> "Ok"]

\* `Ok(_) => Ok(()), Err(_) => Err(AlanError::NumericalInstability)` with
\* the controller's time and state written through the &mut borrows
controller_result(sim, r) ==
    [sim |-> [sim EXCEPT !.controller = r.c, !.time = r.t, !.state = r.S],
     res |-> IF r.res = "Ok" THEN "Ok" ELSE "NumericalInstability"]

AlanSimulation_step(sim) ==
    controller_result(sim, step_symplectic(sim.controller, sim.time, sim.state))

\* AlanSimulation::integrate reporting its own step limit as the controller's errors
AlanSimulation_integrate_one_code(sim, steps) ==
    IF steps > MaxIntegrateSteps
    THEN [sim |-> sim, res |-> "NumericalInstability"]
    ELSE controller_result(sim, integrate(sim.controller, sim.time, sim.state, steps))

AlanSimulation_integrate(sim, steps) ==
    IF steps > MaxIntegrateSteps
    THEN [sim |-> sim, res |-> "InvalidParameter"]
    ELSE controller_result(sim, integrate(sim.controller, sim.time, sim.state, steps))

\* Result of an entry point: SIMULATION afterwards, the value returned, and
\* the caller's out buffer afterwards
FfiResult(S, ret, out) == [S |-> S, ret |-> ret, out |-> out]

\* `Ok(_) => ALAN_ERR_NO_ERROR, Err(err) => err as c_int`
FfiCode(S, r, out) ==
    FfiResult(Some(r.sim), IF r.res = "Ok" THEN ALAN_ERR_NO_ERROR ELSE AlanErrorCode(r.res),
              out)

\* the checks of alan_init up to the creation of the simulation;
\* ALAN_ERR_NO_ERROR when it goes on to create one
alan_init_checks(is_some, n) ==
    IF TargetEndianBig THEN ALAN_ERR_ENDIAN_MISMATCH
    ELSE IF is_some THEN ALAN_ERR_SIMULATION_ACTIVE
    ELSE IF n = 0 \/ n > MaxOscillators THEN ALAN_ERR_INVALID_PARAMETER
    ELSE ALAN_ERR_NO_ERROR

\* the checks of alan_init_snapshot; buffer is None (a null pointer) or the caller's bytes
alan_init_snapshot_checks(is_some, buffer) ==
    IF TargetEndianBig THEN ALAN_ERR_ENDIAN_MISMATCH
    ELSE IF is_some THEN ALAN_ERR_SIMULATION_ACTIVE
    ELSE IF ~buffer.some \/ Len(buffer.v) = 0 THEN ALAN_ERR_INVALID_PARAMETER
    ELSE ALAN_ERR_NO_ERROR

alan_init(S, n) ==
    IF alan_init_checks(S.some, n) # ALAN_ERR_NO_ERROR
    THEN FfiResult(S, alan_init_checks(S.some, n), None)
    ELSE FfiResult(Some(AlanSimulation_new(n)), ALAN_ERR_NO_ERROR, None)

alan_init_snapshot(S, buffer) ==
    IF alan_init_snapshot_checks(S.some, buffer) # ALAN_ERR_NO_ERROR
    THEN FfiResult(S, alan_init_snapshot_checks(S.some, buffer), None)
    ELSE FfiResult(Some(AlanSimulation_new(SnapshotOscillators)), ALAN_ERR_NO_ERROR, None)

alan_state_len(S) == FfiResult(S, IF S.some THEN state_size(S.v) ELSE 0, None)

alan_num_oscillators(S) == FfiResult(S, IF S.some THEN num_oscillators(S.v) ELSE 0, None)

\* out is None (a null pointer) or the caller's buffer, of `size` doubles
alan_get_phase(S, out) ==
    IF ~out.some THEN FfiResult(S, ALAN_ERR_INVALID_PARAMETER, out)
    ELSE IF ~S.some THEN FfiResult(S, ALAN_ERR_SIMULATION_NOT_INITIALIZED, out)
    ELSE IF Len(out.v) # num_oscillators(S.v)
    THEN FfiResult(S, ALAN_ERR_DIMENSION_MISMATCH, out)
    ELSE FfiResult(S, ALAN_ERR_NO_ERROR, Some(get_phases(S.v)))

\* state is None (a null pointer) or the caller's buffer, of `size` doubles
alan_set_state(S, state) ==
    IF ~state.some THEN FfiResult(S, ALAN_ERR_INVALID_PARAMETER, None)
    ELSE IF ~S.some THEN FfiResult(S, ALAN_ERR_SIMULATION_NOT_INITIALIZED, None)
    ELSE IF Len(state.v) # state_size(S.v)
    THEN FfiResult(S, ALAN_ERR_DIMENSION_MISMATCH, None)
    ELSE FfiCode(S, AlanSimulation_set_state(S.v, state.v), None)

alan_step(S) ==
    IF ~S.some THEN FfiResult(S, ALAN_ERR_SIMULATION_NOT_INITIALIZED, None)
    ELSE FfiCode(S, AlanSimulation_step(S.v), None)

alan_integrate(S, steps) ==
    IF steps = 0 THEN FfiResult(S, ALAN_ERR_INVALID_PARAMETER, None)
    ELSE IF ~S.some THEN FfiResult(S, ALAN_ERR_SIMULATION_NOT_INITIALIZED, None)
    ELSE FfiCode(S, AlanSimulation_integrate(S.v, steps), None)

\* stats_out is None (a null pointer) or the caller's AlanTrsStats
alan_get_stats(S, stats_out) ==
    IF ~stats_out.some THEN FfiResult(S, ALAN_ERR_INVALID_PARAMETER, stats_out)
    ELSE IF ~S.some THEN FfiResult(S, ALAN_ERR_SIMULATION_NOT_INITIALIZED, stats_out)
    ELSE FfiResult(S, ALAN_ERR_NO_ERROR, Some(S.v.controller.stats))

alan_shutdown(S) == FfiResult(None, ALAN_ERR_NO_ERROR, None)

-----------------------------------------------------------------------------
FfiOthers == <<codecVars, fsVars, recVars, wtVars, histVars, rdVars, odeVars, oscVars, snapVars, bindVars, wireVars, phaseVars, playerVars>>

(* One caller of the C ABI making one call at a time.  ffi_call keeps the  *)
(* call, the value returned, the caller's buffer afterwards, and           *)
(* SIMULATION as the call found it.                                        *)

MaxFfiCalls == 3

InitCounts == {0, 1, 2, MaxOscillators + 1}
\* a null pointer, an empty buffer, a buffer of one byte
SnapshotBuffers == {None, Some(<<>>), Some(<<65>>)}
\* a null pointer and buffers of 1, 2 and 32 doubles holding 1.0
OutBuffers == {None} \cup {Some([i \in 1..n |-> F64One]) : n \in {1, 2, SnapshotOscillators}}
\* a null pointer; states of one oscillator: at rest at 1.0, close to the
\* largest finite f64, holding a NaN; states of 1 and 4 doubles
StateBuffers ==
    {None, Some(<<F64One, 0>>), Some(<<F64Max, F64Max>>), Some(<<F64NaN, 0>>),
     Some(<<F64One>>), Some(<<F64One, F64One, 0, 0>>)}
IntegrateCounts == {0, 1, 2, MaxIntegrateSteps + 1}
StatsPointers == {None, Some(TrsStatsDefault)}

FfiCall(op, arg, r) ==
    [op |-> op, arg |-> arg, ret |-> r.ret, out |-> r.out, pre |-> SIMULATION,
     k |-> ffi_call.k + 1]

FfiThreads == {1, 2}

FfiThreadIdle == [pc |-> "idle", op |-> "none", arg |-> None, seen |-> FALSE,
                  ret |-> 0, found |-> None, k |-> 0]

FfiIdle ==
    /\ SIMULATION = None
    /\ ffi_call = [op |-> "none", arg |-> None, ret |-> 0, out |-> None, pre |-> None,
                   k |-> MaxFfiCalls]
    /\ ffi_thread = [t \in FfiThreads |-> FfiThreadIdle]

FfiInit ==
    /\ SIMULATION = None
    /\ ffi_call = [op |-> "none", arg |-> None, ret |-> 0, out |-> None, pre |-> None,
                   k |-> 0]
    /\ ffi_thread = [t \in FfiThreads |-> FfiThreadIdle]

FfiApply(op, arg, r) ==
    /\ ffi_call.k < MaxFfiCalls
    /\ SIMULATION' = r.S
    /\ ffi_call' = FfiCall(op, arg, r)
    /\ UNCHANGED <<ffi_thread, FfiOthers>>

FfiAlanInit(n) == FfiApply("alan_init", Some(n), alan_init(SIMULATION, n))

FfiAlanInitSnapshot(buffer) ==
    FfiApply("alan_init_snapshot", buffer, alan_init_snapshot(SIMULATION, buffer))

FfiAlanStateLen == FfiApply("alan_state_len", None, alan_state_len(SIMULATION))

FfiAlanNumOscillators ==
    FfiApply("alan_num_oscillators", None, alan_num_oscillators(SIMULATION))

FfiAlanGetPhase(out) == FfiApply("alan_get_phase", out, alan_get_phase(SIMULATION, out))

FfiAlanSetState(state) ==
    FfiApply("alan_set_state", state, alan_set_state(SIMULATION, state))

FfiAlanStep == FfiApply("alan_step", None, alan_step(SIMULATION))

FfiAlanIntegrate(steps) ==
    FfiApply("alan_integrate", Some(steps), alan_integrate(SIMULATION, steps))

FfiAlanGetStats(stats_out) ==
    FfiApply("alan_get_stats", stats_out, alan_get_stats(SIMULATION, stats_out))

FfiAlanShutdown == FfiApply("alan_shutdown", None, alan_shutdown(SIMULATION))

FfiNext ==
    \/ \E n \in InitCounts : FfiAlanInit(n)
    \/ \E buffer \in SnapshotBuffers : FfiAlanInitSnapshot(buffer)
    \/ FfiAlanStateLen
    \/ FfiAlanNumOscillators
    \/ \E out \in OutBuffers : FfiAlanGetPhase(out)
    \/ \E state \in StateBuffers : FfiAlanSetState(state)
    \/ FfiAlanStep
    \/ \E steps \in IntegrateCounts : FfiAlanIntegrate(steps)
    \/ \E stats_out \in StatsPointers : FfiAlanGetStats(stats_out)
    \/ FfiAlanShutdown

-----------------------------------------------------------------------------
(* Several threads calling alan_init, alan_init_snapshot and alan_shutdown *)
(* with no synchronisation.  An init is two steps, the checks (which read  *)
(* SIMULATION) and the store of the new simulation; a thread can be        *)
(* scheduled out between them.  Two stores made at once are a data race,   *)
(* after which SIMULATION holds either value or a torn one.                *)

MaxRaceCalls == 2

\* the value of SIMULATION after a data race tore it
Torn == [some |-> TRUE, v |-> [torn |-> TRUE]]

\* what `SIMULATION.is_some()` can read
IsSomeOutcomes(S) == IF S = Torn THEN BOOLEAN ELSE {S.some}

FfiThread(pc, op, arg, seen, ret, found, k) ==
    [pc |-> pc, op |-> op, arg |-> arg, seen |-> seen, ret |-> ret, found |-> found,
     k |-> k]

\* the simulation a thread past its checks is about to store
ThreadSimulation(th) ==
    IF th.op = "alan_init" THEN AlanSimulation_new(th.arg.v)
    ELSE AlanSimulation_new(SnapshotOscillators)

RaceInit ==
    /\ SIMULATION = None
    /\ ffi_call = [op |-> "none", arg |-> None, ret |-> 0, out |-> None, pre |-> None,
                   k |-> MaxFfiCalls]
    /\ ffi_thread = [t \in FfiThreads |-> FfiThreadIdle]

CanCall(t) == ffi_thread[t].pc \in {"idle", "done"} /\ ffi_thread[t].k < MaxRaceCalls

\* the checks of an init: the thread returns, or goes on to the store
RaceChecked(t, op, arg, seen, code) ==
    /\ ffi_thread' = [ffi_thread EXCEPT ![t] =
                        FfiThread(IF code = ALAN_ERR_NO_ERROR THEN "store" ELSE "done",
                                  op, arg, seen, code, None, @.k + 1)]
    /\ UNCHANGED <<SIMULATION, ffi_call, FfiOthers>>

RaceAlanInit(t, n) ==
    /\ CanCall(t)
    /\ \E seen \in IsSomeOutcomes(SIMULATION) :
          RaceChecked(t, "alan_init", Some(n), seen, alan_init_checks(seen, n))

RaceAlanInitSnapshot(t, buffer) ==
    /\ CanCall(t)
    /\ \E seen \in IsSomeOutcomes(SIMULATION) :
          RaceChecked(t, "alan_init_snapshot", buffer, seen,
                      alan_init_snapshot_checks(seen, buffer))

\* `SIMULATION = Some(simulation)`; found is what the store replaced
RaceStore(t) ==
    /\ ffi_thread[t].pc = "store"
    /\ SIMULATION' = Some(ThreadSimulation(ffi_thread[t]))
    /\ ffi_thread' = [ffi_thread EXCEPT ![t].pc = "done", ![t].found = SIMULATION]
    /\ UNCHANGED <<ffi_call, FfiOthers>>

\* the stores of two threads made at once
RaceStoreTogether(t, u) ==
    /\ t # u
    /\ ffi_thread[t].pc = "store"
    /\ ffi_thread[u].pc = "store"
    /\ SIMULATION' \in {Some(ThreadSimulation(ffi_thread[t])),
                        Some(ThreadSimulation(ffi_thread[u])), Torn}
    /\ ffi_thread' = [ffi_thread EXCEPT ![t].pc = "done", ![t].found = Torn,
                                        ![u].pc = "done", ![u].found = Torn]
    /\ UNCHANGED <<ffi_call, FfiOthers>>

RaceAlanShutdown(t) ==
    /\ CanCall(t)
    /\ SIMULATION' = None
    /\ ffi_thread' = [ffi_thread EXCEPT ![t] =
                        FfiThread("done", "alan_shutdown", None, FALSE, ALAN_ERR_NO_ERROR,
                                  SIMULATION, @.k + 1)]
    /\ UNCHANGED <<ffi_call, FfiOthers>>

\* `SIMULATION = None` of one thread made at once with the store of another
RaceShutdownDuringStore(t, u) ==
    /\ t # u
    /\ CanCall(t)
    /\ ffi_thread[u].pc = "store"
    /\ SIMULATION' \in {None, Some(ThreadSimulation(ffi_thread[u])), Torn}
    /\ ffi_thread' = [ffi_thread EXCEPT
                        ![t] = FfiThread("done", "alan_shutdown", None, FALSE,
                                         ALAN_ERR_NO_ERROR, SIMULATION, @.k + 1),
                        ![u].pc = "done", ![u].found = Torn]
    /\ UNCHANGED <<ffi_call, FfiOthers>>

RaceNext ==
    \/ \E t \in FfiThreads, n \in InitCounts : RaceAlanInit(t, n)
    \/ \E t \in FfiThreads, buffer \in SnapshotBuffers : RaceAlanInitSnapshot(t, buffer)
    \/ \E t \in FfiThreads : RaceStore(t)
    \/ \E t, u \in FfiThreads : RaceStoreTogether(t, u)
    \/ \E t \in FfiThreads : RaceAlanShutdown(t)
    \/ \E t, u \in FfiThreads : RaceShutdownDuringStore(t, u)

-----------------------------------------------------------------------------
(* Pattern binding (psi_sync_monitor.rs): concept graphs, and the hook     *)
(* that binds an attractor signature to an ELFIN symbol.  A graph is       *)
(* [nodes: id -> metadata, hash_lookup: hash -> id]; a HashMap is a        *)
(* function on the set of its keys.                                        *)

MapInsert(m, k, v) == [x \in (DOMAIN m) \cup {k} |-> IF x = k THEN v ELSE m[x]]

EmptyMap == [x \in {} |-> 0]

\* `for (key, value) in b { a.insert(key, value) }`
MapExtend(a, b) ==
    [x \in (DOMAIN a) \cup (DOMAIN b) |-> IF x \in DOMAIN b THEN b[x] ELSE a[x]]

ConceptGraphNew == [nodes |-> EmptyMap, hash_lookup |-> EmptyMap]

\* create_node with `id` the value rand::random() returned
create_node(graph, id) == [graph EXCEPT !.nodes = MapInsert(@, id, EmptyMap)]

set_meta(graph, node_id, key, value) ==
    IF node_id \in DOMAIN graph.nodes
    THEN [graph |-> [graph EXCEPT !.nodes[node_id] = MapInsert(@, key, value)],
          res |-> "Ok"]
    ELSE [graph |-> graph, res |-> "NotFound"]

get_meta(graph, node_id, key) ==
    IF node_id \in DOMAIN graph.nodes /\ key \in DOMAIN graph.nodes[node_id]
    THEN Some(graph.nodes[node_id][key])
    ELSE None

lookup_hash(graph, hash) ==
    IF hash \in DOMAIN graph.hash_lookup THEN Some(graph.hash_lookup[hash]) ELSE None

register_hash(graph, hash, node_id) ==
    [graph EXCEPT !.hash_lookup = MapInsert(@, hash, node_id)]

merge(graph, node1, node2) ==
    IF node1 \notin DOMAIN graph.nodes \/ node2 \notin DOMAIN graph.nodes
    THEN [graph |-> graph, res |-> "NotFound"]
    ELSE [graph |-> [graph EXCEPT !.nodes[node1] = MapExtend(@, graph.nodes[node2])],
          res |-> "Ok"]

\* A signature component is an f32 in units of 1e-4.  `{:.3?}` prints it
\* with three decimals, rounded to nearest, ties to even: the result in
\* units of 1e-3.
SignatureUnit == 10

Format3(x) ==
    LET q == Abs(x) \div SignatureUnit
        r == Abs(x) % SignatureUnit
        up == (2 * r > SignatureUnit) \/ (2 * r = SignatureUnit /\ q % 2 = 1)
        m == IF up THEN q + 1 ELSE q
    IN IF x < 0 THEN -m ELSE m

\* format!("{:.3?}", psi_signature)
FormatSignature(sig) == [i \in 1..Len(sig) |-> Format3(sig[i])]

\* siphash24 of the formatted string: DefaultHasher::new() has fixed keys,
\* so the hash is a function of the string; distinct strings of the model
\* get distinct hashes
HashRadix == 4096

RECURSIVE HashDigits(_, _)
HashDigits(str, n) ==
    IF n = 0 THEN 1
    ELSE (HashDigits(str, n - 1) * HashRadix) + (str[n] % HashRadix)

siphash24(str) == HashDigits(str, Len(str))

bind_set_source(node_id, merged) ==
    IF merged.res # "Ok" THEN [graph |-> merged.graph, ret |-> FALSE]
    ELSE [graph |-> set_meta(merged.graph, node_id, "source", "ELFIN").graph,
          ret |-> set_meta(merged.graph, node_id, "source", "ELFIN").res = "Ok"]

bind_hit(global, node_id, elfin_id) ==
    IF ~elfin_id.some THEN [graph |-> global, ret |-> FALSE]
    ELSE bind_set_source(node_id, merge(global, node_id, elfin_id.v))

\* try_bind_to_elfin works on ConceptGraph::global()
try_bind_to_elfin(global, node_id, psi_signature) ==
    bind_hit(global, node_id, lookup_hash(global, siphash24(FormatSignature(psi_signature))))

-----------------------------------------------------------------------------
(* The caller of the pattern binding: it fills the global graph and a      *)
(* graph of its own (ConceptGraph::new(), as the module's test does) and   *)
(* reports promoted attractors.                                            *)

MaxBindCalls == 3

GraphNames == {"global", "own"}
ConceptIds == {1, 2}
MetaKeys == {"elfin_name", "source"}
MetaValues == {"wheelDiameter", "legacy"}
\* 0.1, 0.2; the same but for a digit the format drops; 0.1015, 0.2
Signatures == {<<1000, 2000>>, <<1004, 2000>>, <<1015, 2000>>}

BindCall(op, g, node, sig, ret) ==
    [op |-> op, g |-> g, node |-> node, sig |-> sig, ret |-> ret, pre |-> graphs,
     k |-> bind_call.k + 1]

BindIdle ==
    /\ graphs = [g \in GraphNames |-> ConceptGraphNew]
    /\ bind_call = [op |-> "none", g |-> "global", node |-> 0, sig |-> <<>>,
                    ret |-> FALSE, pre |-> [g \in GraphNames |-> ConceptGraphNew],
                    k |-> MaxBindCalls]

\* a graph after create_node twice and set_meta on both nodes: an attractor
\* node 1 and a symbol node 2 that disagree on one key
PopulatedGraph ==
    set_meta(set_meta(create_node(create_node(ConceptGraphNew, 1), 2),
                      1, "elfin_name", "legacy").graph,
             2, "elfin_name", "wheelDiameter").graph

BindInit ==
    /\ graphs \in [GraphNames -> {ConceptGraphNew, PopulatedGraph}]
    /\ bind_call = [op |-> "none", g |-> "global", node |-> 0, sig |-> <<>>,
                    ret |-> FALSE, pre |-> graphs, k |-> 0]

BindOthers == <<codecVars, fsVars, recVars, wtVars, histVars, rdVars, odeVars, oscVars,
                snapVars, ffiVars, wireVars, phaseVars, playerVars>>

BindCreateNode(g, id) ==
    /\ bind_call.k < MaxBindCalls
    /\ graphs' = [graphs EXCEPT ![g] = create_node(@, id)]
    /\ bind_call' = BindCall("create_node", g, id, <<>>, TRUE)
    /\ UNCHANGED BindOthers

BindSetMeta(g, node_id, key, value) ==
    /\ bind_call.k < MaxBindCalls
    /\ graphs' = [graphs EXCEPT ![g] = set_meta(@, node_id, key, value).graph]
    /\ bind_call' = BindCall("set_meta", g, node_id, <<>>,
                             set_meta(graphs[g], node_id, key, value).res = "Ok")
    /\ UNCHANGED BindOthers

BindRegisterHash(g, sig, node_id) ==
    /\ bind_call.k < MaxBindCalls
    /\ graphs' = [graphs EXCEPT ![g] = register_hash(@, siphash24(FormatSignature(sig)),
                                                     node_id)]
    /\ bind_call' = BindCall("register_hash", g, node_id, sig, TRUE)
    /\ UNCHANGED BindOthers

BindTryBindToElfin(node_id, sig) ==
    /\ bind_call.k < MaxBindCalls
    /\ graphs' = [graphs EXCEPT !["global"] = try_bind_to_elfin(@, node_id, sig).graph]
    /\ bind_call' = BindCall("try_bind_to_elfin", "global", node_id, sig,
                             try_bind_to_elfin(graphs["global"], node_id, sig).ret)
    /\ UNCHANGED BindOthers

BindNext ==
    \/ \E g \in GraphNames, id \in ConceptIds : BindCreateNode(g, id)
    \/ \E g \in GraphNames, id \in ConceptIds, key \in MetaKeys, value \in MetaValues :
          BindSetMeta(g, id, key, value)
    \/ \E g \in GraphNames, sig \in Signatures, id \in ConceptIds :
          BindRegisterHash(g, sig, id)
    \/ \E id \in ConceptIds, sig \in Signatures : BindTryBindToElfin(id, sig)

-----------------------------------------------------------------------------
(* The wire format: the chunk tag, the LEB128 length and the plain deltas, *)
(* as the recorder writes them and the reader reads them back (SpecWire).  *)

\* a u32 (and the reader's 64-bit usize) held as [hi, lo], lo the low 16 bits
U32(hi, lo) == [hi |-> hi, lo |-> lo]

\* A length byte that never carries the continuation bit.
leb128_byte_no_continuation(group, more) == group

\* write_leb128: `byte |= 0x80` when more bytes follow
leb128_byte(group, more) == IF more THEN group + 128 ELSE group

RECURSIVE write_leb128_wide(_)
\* PsiArchiveWriter::write_leb128 over the whole u32 range
write_leb128_wide(value) ==
    LET group == value.lo % 128
        rest == U32(value.hi \div 128,
                    (value.lo \div 128) + ((value.hi % 128) * 512))
    IN  IF rest.hi # 0 \/ rest.lo # 0
        THEN <<leb128_byte(group, TRUE)>> \o write_leb128_wide(rest)
        ELSE <<leb128_byte(group, FALSE)>>

\* `result |= ((byte & 0x7F) as usize) << shift`, shift in {0, 7, .., 28}:
\* the bits of the group are clear in result, so the OR is a sum
OrShifted(result, group, shift) ==
    IF shift >= 16
    THEN U32(result.hi + (group * (2 ^ (shift - 16))), result.lo)
    ELSE U32(result.hi + ((group * (2 ^ shift)) \div U16Span),
             result.lo + ((group * (2 ^ shift)) % U16Span))

RECURSIVE read_leb128_wide_loop(_, _, _, _, _)
\* the loop of PsiArchiveReader::read_leb128 without the cap on the value
read_leb128_wide_loop(mmap, offset, result, shift, bytes_read) ==
    IF offset >= Len(mmap)
    THEN Err("InvalidFormat", "Unexpected end of file in LEB128")
    ELSE IF ByteAt(mmap, offset) < 128
    THEN Ok([value |-> OrShifted(result, ByteAt(mmap, offset) % 128, shift),
             bytes_read |-> bytes_read + 1])
    ELSE IF shift + 7 > 28
    THEN Err("InvalidFormat", "LEB128 overflow")
    ELSE read_leb128_wide_loop(mmap, offset + 1,
                               OrShifted(result, ByteAt(mmap, offset) % 128, shift),
                               shift + 7, bytes_read + 1)

\* PsiArchiveReader::read_leb128 over the whole range of its result
read_leb128_wide(mmap, offset) == read_leb128_wide_loop(mmap, offset, U32(0, 0), 0, 0)

\* `amplitude - self.last_amplitudes[i]` leaves the i16 range
plain_delta_overflows(last, value) ==
    value - last > I16Max \/ value - last < I16Min

\* one element of encode_amplitudes / encode_emotions: with overflow checks
\* (a debug build) the subtraction panics, without them it wraps
encode_plain_delta_built(last, value, overflow_checks) ==
    IF overflow_checks /\ plain_delta_overflows(last, value) THEN None
    ELSE Some(encode_plain_delta(last, value))

\* f32 literals
F32Of(sign, e) == [sign |-> sign, m |-> F32Hidden, e |-> e - 23]

(* Inputs of the harness *)

\* the band codes a data chunk may carry
TagBands == {BAND_MICRO, BAND_MESO, BAND_MACRO, BAND_AUDIO_PCM}

TagPayloads == {<<>>, <<1, 2>>}

\* payload lengths: 0, the ends of every encoding length, u32::MAX
Leb128Values ==
    {U32(0, 0), U32(0, 1), U32(0, 127), U32(0, 128), U32(0, 300),
     U32(0, 16383), U32(0, 16384), U32(0, 65535), U32(1, 0),
     U32(31, 65535), U32(32, 0), U32(4095, 65535), U32(4096, 0),
     U32(32767, 65535), U32(32768, 0), U32(43981, 4660), U32(65535, 65535)}

\* encodings no writer call emits: six groups, five groups that all carry
\* the continuation bit, five groups beyond u32, a cut encoding, padded zero
Leb128Encodings ==
    {<<128, 128, 128, 128, 128, 0>>, <<255, 255, 255, 255, 255, 1>>,
     <<128, 128, 128, 128, 128>>, <<255, 255, 255, 255, 127>>,
     <<128>>, <<128, 0>>}

\* amplitudes and emotions handed to capture_frame: 0.0, 0.25, 0.5, 1.0, and
\* outside the documented range -1.0, 2.0, -2.0
SampleInputs ==
    {F32Zero(1), F32Of(1, -2), F32Of(1, -1), F32Of(1, 0),
     F32Of(-1, 0), F32Of(1, 1), F32Of(-1, 1)}

WireIdle == wire = [op |-> "none", pc |-> "done"]

WireInit ==
    \/ \E band \in TagBands, is_keyframe \in BOOLEAN, data \in TagPayloads :
          wire = [op |-> "chunk", pc |-> "write",
                  band |-> band, is_keyframe |-> is_keyframe, data |-> data]
    \/ \E value \in Leb128Values :
          wire = [op |-> "leb128", pc |-> "write", value |-> value]
    \/ \E bytes \in Leb128Encodings :
          wire = [op |-> "leb128", pc |-> "read", bytes |-> bytes]
    \/ \E last \in SampleInputs, value \in SampleInputs :
          wire = [op |-> "delta", pc |-> "encode", last |-> last, value |-> value]

WireOthers == <<codecVars, fsVars, recVars, wtVars, histVars, rdVars, odeVars, oscVars,
                snapVars, ffiVars, bindVars, phaseVars, playerVars>>

\* write_chunk on a started writer: the bytes of the chunk
WireWriteChunk ==
    /\ wire.op = "chunk" /\ wire.pc = "write"
    /\ wire' = [op |-> "chunk", pc |-> "scan",
                band |-> wire.band, is_keyframe |-> wire.is_keyframe,
                bytes |-> Flatten(ChunkPieces(wire.band, wire.is_keyframe, wire.data))]
    /\ UNCHANGED WireOthers

\* scan_chunks on a file whose first chunk is the one written, at the
\* offset the scan starts from
WireScanChunks ==
    /\ wire.op = "chunk" /\ wire.pc = "scan"
    /\ wire' = [op |-> "chunk", pc |-> "done",
                band |-> wire.band, is_keyframe |-> wire.is_keyframe,
                bytes |-> wire.bytes,
                out |-> scan_chunks(Repeat(0, 18) \o wire.bytes, None)]
    /\ UNCHANGED WireOthers

WireWriteLeb128 ==
    /\ wire.op = "leb128" /\ wire.pc = "write"
    /\ wire' = [op |-> "leb128", pc |-> "read", value |-> wire.value,
                bytes |-> write_leb128_wide(wire.value)]
    /\ UNCHANGED WireOthers

WireReadLeb128 ==
    /\ wire.op = "leb128" /\ wire.pc = "read"
    /\ wire' = [op |-> "leb128", pc |-> "done",
                written |-> "value" \in DOMAIN wire,
                value |-> IF "value" \in DOMAIN wire THEN wire.value ELSE U32(0, 0),
                bytes |-> wire.bytes,
                out |-> read_leb128_wide(wire.bytes, 0)]
    /\ UNCHANGED WireOthers

\* capture_frame quantizes the two samples, the encoder takes their difference
WireEncodeDelta ==
    /\ wire.op = "delta" /\ wire.pc = "encode"
    /\ \E overflow_checks \in BOOLEAN :
         wire' = [op |-> "delta", pc |-> "apply",
                  last |-> amplitude_to_int16(wire.last),
                  value |-> amplitude_to_int16(wire.value),
                  delta |-> encode_plain_delta_built(amplitude_to_int16(wire.last),
                                                     amplitude_to_int16(wire.value),
                                                     overflow_checks)]
    /\ UNCHANGED WireOthers

\* apply_amplitude_deltas / apply_emotion_deltas, one element, on the delta
\* of an encoder that did not panic
WireApplyDelta ==
    /\ wire.op = "delta" /\ wire.pc = "apply"
    /\ wire' = [op |-> "delta", pc |-> "done",
                last |-> wire.last, value |-> wire.value, delta |-> wire.delta,
                out |-> IF wire.delta.some
                        THEN Some(SaturatingAddI16(wire.last, wire.delta.v))
                        ELSE None]
    /\ UNCHANGED WireOthers

WireNext ==
    \/ WireWriteChunk
    \/ WireScanChunks
    \/ WireWriteLeb128
    \/ WireReadLeb128
    \/ WireEncodeDelta
    \/ WireApplyDelta

-----------------------------------------------------------------------------
(* The phase wrap of the Verlet integrator in f32 (SpecPhase).  The sums   *)
(* of apply_phase_momentum round like the hardware's: an f32 is the        *)
(* [sign, m, e] of the reader's arithmetic above.                          *)

\* |a| >= |b| for a, b # 0
F32MagGe(a, b) == a.e > b.e \/ (a.e = b.e /\ a.m >= b.m)

RECURSIVE F32RoundUp(_, _, _, _, _)
\* round sign * (h + num/den) * 2^e for h < 2^24, 0 <= num < den, h + num > 0:
\* the leading bit is brought to 2^23 first
F32RoundUp(sign, h, num, den, e) ==
    IF h >= F32Hidden THEN F32Round(sign, h, num, den, e)
    ELSE F32RoundUp(sign, (2 * h) + ((2 * num) \div den), (2 * num) % den, den, e - 1)

\* big + small for |big| >= |small| > 0 of one sign, small.m = q * den + r
F32AddAligned(big, q, r, den) ==
    IF big.m + q < F32Span THEN F32Round(big.sign, big.m + q, r, den, big.e)
    ELSE F32Round(big.sign, (big.m + q) \div 2, (((big.m + q) % 2) * den) + r,
                  2 * den, big.e + 1)

\* big - small in magnitude for |big| >= |small| > 0, small.m = q * den + r
F32SubAligned(big, q, r, den) ==
    IF r = 0
    THEN (IF big.m = q THEN F32Zero(1)
          ELSE F32RoundUp(big.sign, big.m - q, 0, 1, big.e))
    ELSE F32RoundUp(big.sign, big.m - q - 1, den - r, den, big.e)

\* big + small for |big| >= |small| > 0; beyond 25 binary places the small
\* one is less than a quarter of the last place of the big one
F32AddOrdered(big, small) ==
    IF big.e - small.e > 25 THEN big
    ELSE IF big.sign = small.sign
    THEN F32AddAligned(big, small.m \div (2 ^ (big.e - small.e)),
                       small.m % (2 ^ (big.e - small.e)), 2 ^ (big.e - small.e))
    ELSE F32SubAligned(big, small.m \div (2 ^ (big.e - small.e)),
                       small.m % (2 ^ (big.e - small.e)), 2 ^ (big.e - small.e))

\* a + b, rounded to nearest, ties to even
F32Add(a, b) ==
    IF a.m = 0 THEN b
    ELSE IF b.m = 0 THEN a
    ELSE IF F32MagGe(a, b) THEN F32AddOrdered(a, b)
    ELSE F32AddOrdered(b, a)

\* a - b
F32Sub(a, b) == F32Add(a, [b EXCEPT !.sign = -b.sign])

\* a < 0.0
F32IsNegative(a) == a.m # 0 /\ a.sign = -1

\* a >= b for b > 0
F32GePositive(a, b) == a.m # 0 /\ a.sign = 1 /\ F32MagGe(a, b)

\* std::f32::consts::TAU
F32Tau == [sign |-> 1, m |-> 13176795, e |-> -21]

\* dt_phase 0.01 as an f32
F32DtPhase == [sign |-> 1, m |-> 10737418, e |-> -30]

RECURSIVE wrap_down(_)
\* `while state.theta[i] >= TAU { state.theta[i] -= TAU; }`
wrap_down(theta) ==
    IF F32GePositive(theta, F32Tau) THEN wrap_down(F32Sub(theta, F32Tau)) ELSE theta

RECURSIVE wrap_up(_)
\* `while state.theta[i] < 0.0 { state.theta[i] += TAU; }`
wrap_up(theta) ==
    IF F32IsNegative(theta) THEN wrap_up(F32Add(theta, F32Tau)) ELSE theta

\* VerletIntegrator::apply_phase_momentum, one oscillator, in f32
apply_phase_momentum_f32(theta, p_theta, dt) ==
    wrap_up(wrap_down(F32Add(theta, F32Mul(p_theta, dt))))

\* sign * 2^e as an f32
F32Pow2(sign, e) == [sign |-> sign, m |-> F32Hidden, e |-> e - 23]

\* phases in [0, TAU): 0, one unit in the last place of TAU, 2^-10, 0.5, 1,
\* 1.5, 2, 3, 4, 6, 6.25, and the last f32 below TAU
PhaseInputs ==
    {F32Zero(1), F32Pow2(1, -21), F32Pow2(1, -10), F32Pow2(1, -1), F32Pow2(1, 0),
     [sign |-> 1, m |-> 12582912, e |-> -23], F32Pow2(1, 1),
     [sign |-> 1, m |-> 12582912, e |-> -22], F32Pow2(1, 2),
     [sign |-> 1, m |-> 12582912, e |-> -21], [sign |-> 1, m |-> 13107200, e |-> -21],
     [sign |-> 1, m |-> 13176794, e |-> -21]}

\* momenta after the half kick: none, 2^-21, 2^-10, 1, 2, 512 and 1024 per
\* unit of time, forward and backward (the last two carry a phase past a
\* whole turn in one step)
MomentumInputs ==
    {F32Zero(1)}
    \cup {F32Pow2(sign, e) : sign \in {1, -1}, e \in {-21, -10, 0, 1, 9, 10}}

PhaseIdle == phase_call = [pc |-> "done"]

PhaseInit ==
    \E theta \in PhaseInputs, p_theta \in MomentumInputs :
        phase_call = [pc |-> "step", theta |-> theta, p_theta |-> p_theta]

PhaseOthers == <<codecVars, fsVars, recVars, wtVars, histVars, rdVars, odeVars, oscVars,
                 snapVars, ffiVars, bindVars, wireVars, playerVars>>

\* step 2 of integrate_phase on one oscillator
PhaseApplyMomentum ==
    /\ phase_call.pc = "step"
    /\ phase_call' = [pc |-> "stepped",
                      pre |-> phase_call.theta,
                      p_theta |-> phase_call.p_theta,
                      theta |-> apply_phase_momentum_f32(phase_call.theta,
                                                         phase_call.p_theta,
                                                         F32DtPhase)]
    /\ UNCHANGED PhaseOthers

PhaseNext == PhaseApplyMomentum

-----------------------------------------------------------------------------
(* PsiPlayer (psi_reader.rs) and its caller. The player holds its reader   *)
(* in an Arc; player_clock is last_frame_time.elapsed() in milliseconds.   *)
(* start_time is written by play and read into a local that is not used.   *)

\* `max_buffer_size: 60`
max_buffer_size == 60

\* `Duration::from_millis(16)`
frame_time == 16

\* 0.1 and 10.0 as f32, the limits of set_rate
F32RateMin == [sign |-> 1, m |-> 13421773, e |-> -27]
F32RateMax == [sign |-> 1, m |-> 10485760, e |-> -20]

\* a < b
F32Lt(a, b) ==
    IF a.m = 0 THEN b.m # 0 /\ b.sign = 1
    ELSE IF b.m = 0 THEN a.sign = -1
    ELSE IF a.sign # b.sign THEN a.sign = -1
    ELSE IF a.sign = 1 THEN ~F32MagGe(a, b)
    ELSE ~F32MagGe(b, a)

\* f32::max and f32::min
F32Max(a, b) == IF F32Lt(a, b) THEN b ELSE a
F32Min(a, b) == IF F32Lt(b, a) THEN b ELSE a

\* `x as usize` for an f32 below 2^23: truncation toward zero
F32ToUsize(a) ==
    IF a.m = 0 \/ a.sign = -1 \/ a.e <= -24 THEN 0
    ELSE IF a.e >= 0 THEN a.m * (2 ^ a.e)
    ELSE a.m \div (2 ^ (-a.e))

\* `as_millis() as f32` below 2^24 milliseconds: exact
F32FromMillis(x) ==
    IF x = 0 THEN F32Zero(1)
    ELSE [sign |-> 1,
          m |-> x * (2 ^ (CHOOSE k \in 0..23 : x * (2 ^ k) \in F32Hidden..(F32Span - 1))),
          e |-> -(CHOOSE k \in 0..23 : x * (2 ^ k) \in F32Hidden..(F32Span - 1))]

\* a / 16.0, the frame time as an f32: the divisor is 2^4 and the quotient
\* is exact
F32DivFrameTime(a) == IF a.m = 0 THEN a ELSE [a EXCEPT !.e = @ - 4]

\* u64::MAX in 16-bit limbs, `0 - 1` of a build without overflow checks
U64Max == <<65535, 65535, 65535, 65535>>

\* PsiPlayer::new
PsiPlayerNew ==
    [position |-> 0, playing |-> FALSE, rate |-> F32Pow2(1, 0), frame_buffer |-> <<>>]

\* PsiPlayer::play (the caller's clock restarts)
play(p) == [p EXCEPT !.playing = TRUE]

\* PsiPlayer::pause
pause(p) == [p EXCEPT !.playing = FALSE]

\* PsiPlayer::stop
stop(p) == [p EXCEPT !.playing = FALSE, !.position = 0, !.frame_buffer = <<>>]

\* PsiPlayer::set_rate
set_rate(p, rate) == [p EXCEPT !.rate = F32Min(F32Max(rate, F32RateMin), F32RateMax)]

\* `while self.frame_buffer.len() >= self.max_buffer_size { pop_front() }`
trim_buffer(buffer) ==
    IF Len(buffer) >= max_buffer_size
    THEN SubSeq(buffer, Len(buffer) - max_buffer_size + 2, Len(buffer))
    ELSE buffer

RECURSIVE preload_loop(_, _, _, _, _)
RECURSIVE preload_read(_, _, _, _, _)
\* `let frame = self.reader.read_frame(frame_index)?; push_back(frame)`: r is
\* what read_frame returned
preload_read(p, r, frame_index, left, count) ==
    IF ~r.res.ok
    THEN [res |-> r.res, player |-> p, reader |-> r.reader]
    ELSE preload_loop([p EXCEPT !.frame_buffer = Append(@, r.res.v)], r.reader,
                      frame_index + 1, left - 1, count)

\* the loop of preload_buffer from frame_index on, `left` rounds to go
preload_loop(p, rd, frame_index, left, count) ==
    IF left = 0 \/ frame_index >= count
    THEN [res |-> Ok(TRUE), player |-> p, reader |-> rd]
    ELSE preload_read(p, read_frame(rd, frame_index), frame_index, left, count)

\* preload_buffer once the buffer has been cut down to `buffer`
preload_trimmed(p, rd, buffer) ==
    preload_loop([p EXCEPT !.frame_buffer = buffer], rd, p.position + Len(buffer),
                 max_buffer_size - Len(buffer), frame_count(rd))

\* PsiPlayer::preload_buffer: [res, player, reader]
preload_buffer(p, rd) == preload_trimmed(p, rd, trim_buffer(p.frame_buffer))

\* the text of seek's error: `frame_count - 1` of an empty archive wraps
\* where the build does not check overflow
seek_error(frame, count) ==
    Err("InvalidParameter",
        <<"Frame index out of range", frame, IF count = 0 THEN U64Max ELSE count - 1>>)

\* the end of seek: `self.preload_buffer()?; Ok(())`
seek_preloaded(r) == [res |-> Some(r.res), player |-> r.player, reader |-> r.reader]

\* PsiPlayer::seek: [res, player, reader]; res is None where the call
\* panics (`frame_count - 1` on u64 with overflow checks)
seek_built(p, rd, frame, overflow_checks) ==
    IF frame >= frame_count(rd)
    THEN IF overflow_checks /\ frame_count(rd) = 0
         THEN [res |-> None, player |-> p, reader |-> rd]
         ELSE [res |-> Some(seek_error(frame, frame_count(rd))), player |-> p,
               reader |-> rd]
    ELSE seek_preloaded(preload_buffer([p EXCEPT !.position = frame,
                                                 !.frame_buffer = <<>>], rd))

\* `(time_since_last.as_millis() as f32 / frame_time.as_millis() as f32 * self.rate) as usize`
frames_to_deliver(time_since_last, rate) ==
    F32ToUsize(F32Mul(F32DivFrameTime(F32FromMillis(time_since_last)), rate))

RECURSIVE deliver_loop(_, _, _, _)
RECURSIVE deliver_loaded(_, _, _)
\* the body of update's loop once the buffer has been looked at: `loaded`
\* is the player and reader the body goes on with
deliver_loaded(loaded, left, delivered) ==
    IF ~loaded.res.ok
    THEN [res |-> loaded.res, player |-> loaded.player, reader |-> loaded.reader,
          delivered |-> delivered, timed |-> FALSE]
    ELSE IF loaded.player.frame_buffer = <<>>
    THEN [res |-> Ok(TRUE), player |-> [loaded.player EXCEPT !.playing = FALSE],
          reader |-> loaded.reader, delivered |-> delivered, timed |-> FALSE]
    ELSE deliver_loop([loaded.player EXCEPT !.frame_buffer = Tail(@),
                                            !.position = @ + 1],
                      loaded.reader, left - 1,
                      Append(delivered, Head(loaded.player.frame_buffer)))

\* `for _ in 0..frames_to_deliver`: the frames handed to the callback are
\* collected in `delivered`; `timed` tells that last_frame_time was set
deliver_loop(p, rd, left, delivered) ==
    IF left = 0
    THEN [res |-> Ok(TRUE), player |-> p, reader |-> rd, delivered |-> delivered,
          timed |-> TRUE]
    ELSE IF p.frame_buffer = <<>>
    THEN deliver_loaded(preload_buffer(p, rd), left, delivered)
    ELSE deliver_loaded([res |-> Ok(TRUE), player |-> p, reader |-> rd], left, delivered)

\* PsiPlayer::update: [res, player, reader, delivered, timed]
update(p, rd, time_since_last) ==
    IF ~p.playing \/ time_since_last < frame_time
    THEN [res |-> Ok(TRUE), player |-> p, reader |-> rd, delivered |-> <<>>,
          timed |-> FALSE]
    ELSE deliver_loop(p, rd, frames_to_deliver(time_since_last, p.rate), <<>>)

\* the clock runs in steps of TickMs up to MaxElapsed milliseconds
TickMs == 8
MaxElapsed == 64

\* seek targets, and rates 0.05, 0.5, 1, 2 and 20
SeekTargets == {0, 1, max_buffer_size}
RateInputs ==
    {[sign |-> 1, m |-> 13421773, e |-> -28], F32Pow2(1, -1), F32Pow2(1, 0),
     F32Pow2(1, 1), [sign |-> 1, m |-> 10485760, e |-> -19]}

PlayerCall(op, arg, res, pre, delivered) ==
    [op |-> op, arg |-> arg, res |-> res, pre |-> pre, delivered |-> delivered]

PlayerIdle ==
    /\ player = PsiPlayerNew
    /\ player_clock = 0
    /\ player_call = PlayerCall("new", 0, Some(Ok(TRUE)), PsiPlayerNew, <<>>)

PlayerInit == PlayerIdle

PlayerOthers == <<codecVars, fsVars, recVars, wtVars, histVars, r_open, r_read, h_corrupt,
                  odeVars, oscVars, snapVars, ffiVars, bindVars, wireVars, phaseVars>>

\* a call that panicked ended the caller
PlayerAlive == player_call.res.some

PlayerPlay ==
    /\ PlayerAlive
    /\ player' = play(player)
    /\ player_clock' = 0
    /\ player_call' = PlayerCall("play", 0, Some(Ok(TRUE)), player, <<>>)
    /\ UNCHANGED <<reader, PlayerOthers>>

PlayerPause ==
    /\ PlayerAlive
    /\ player' = pause(player)
    /\ player_call' = PlayerCall("pause", 0, Some(Ok(TRUE)), player, <<>>)
    /\ UNCHANGED <<reader, player_clock, PlayerOthers>>

PlayerStop ==
    /\ PlayerAlive
    /\ player' = stop(player)
    /\ player_call' = PlayerCall("stop", 0, Some(Ok(TRUE)), player, <<>>)
    /\ UNCHANGED <<reader, player_clock, PlayerOthers>>

PlayerSetRate(rate) ==
    /\ PlayerAlive
    /\ player' = set_rate(player, rate)
    /\ player_call' = PlayerCall("set_rate", rate, Some(Ok(TRUE)), player, <<>>)
    /\ UNCHANGED <<reader, player_clock, PlayerOthers>>

PlayerSeek(frame) ==
    /\ PlayerAlive
    /\ \E overflow_checks \in BOOLEAN :
           \E r \in {seek_built(player, reader, frame, overflow_checks)} :
               /\ player' = r.player
               /\ reader' = r.reader
               /\ player_call' = PlayerCall("seek", frame, r.res, player, <<>>)
    /\ UNCHANGED <<player_clock, PlayerOthers>>

PlayerUpdate ==
    /\ PlayerAlive
    /\ \E u \in {update(player, reader, player_clock)} :
           /\ player' = u.player
           /\ reader' = u.reader
           /\ player_clock' = IF u.timed THEN 0 ELSE player_clock
           /\ player_call' = PlayerCall("update", player_clock, Some(u.res), player,
                                        u.delivered)
    /\ UNCHANGED PlayerOthers

\* time passes
PlayerTick ==
    /\ PlayerAlive
    /\ player_clock + TickMs <= MaxElapsed
    /\ player_clock' = player_clock + TickMs
    /\ UNCHANGED <<player, player_call, reader, PlayerOthers>>

PlayerNext ==
    \/ PlayerPlay
    \/ PlayerPause
    \/ PlayerStop
    \/ \E rate \in RateInputs : PlayerSetRate(rate)
    \/ \E frame \in SeekTargets : PlayerSeek(frame)
    \/ PlayerUpdate
    \/ PlayerTick

-----------------------------------------------------------------------------
(* The idle states of alan_core and of the harnesses *)

CoreIdle ==
    OdeIdle /\ OscIdle /\ SnapIdle /\ FfiIdle /\ BindIdle /\ WireIdle /\ PhaseIdle
        /\ PlayerIdle

-----------------------------------------------------------------------------
(* Bounds of the codec harness: phase samples are the i16 endpoints, the   *)
(* values around zero, the values of scenario E4, and a stride through     *)
(* the whole i16 range.                                                    *)

PhaseStride == 4099

PhaseSamples ==
    {I16Min + k * PhaseStride : k \in 0..((U16Span - 1) \div PhaseStride)}
        \cup {I16Min, I16Min + 1, -1, 0, 1, I16Max - 1, I16Max, 32000, -32536}

\* PsiRecorder::new: full pool, empty queue, not recording; empty output_dir
RecorderInitState ==
    /\ disk = [p \in Paths |-> NoFile]
    /\ w = WriterNew
    /\ is_recording = FALSE
    /\ current_frame = 0
    /\ frame_queue = <<>>
    /\ frame_pool = queue_capacity
    /\ stats = StatsDefault
    /\ delta_encoder = EncoderReset
    /\ processing_thread = "none"
    /\ host_pc = "idle"
    /\ wt_pc = "idle"
    /\ wt_i = 0
    /\ wt_processed = 0
    /\ wt_frame = NoFrame
    /\ wt_frame_index = 0
    /\ wt_last_flush_frame = 0
    /\ h_pushed = <<>>
    /\ h_popped = <<>>
    /\ h_written = <<>>
    /\ h_capture = [ret |-> FALSE, enq |-> FALSE, dropped |-> 0, active |-> FALSE]
    /\ h_accepted = 0
    /\ h_calls = 0
    /\ h_ioerr = "none"
    /\ h_finish = "none"
    /\ h_faults = 0
    /\ reader = ReaderNew
    /\ r_open = None
    /\ r_read = None
    /\ h_corrupt = None

CodecIdle ==
    /\ cpc = "done"
    /\ cprev = 0
    /\ ccurr = 0
    /\ cdelta = 0
    /\ cout = 0

CodecInit ==
    /\ cpc = "encode"
    /\ cprev \in PhaseSamples
    /\ ccurr \in PhaseSamples
    /\ cdelta = 0
    /\ cout = 0
    /\ RecorderInitState
    /\ CoreIdle

CodecEncode ==
    /\ cpc = "encode"
    /\ cdelta' = encode_phase_delta(cprev, ccurr)
    /\ cpc' = "decode"
    /\ UNCHANGED <<cprev, ccurr, cout, fsVars, recVars, wtVars, histVars, rdVars, coreVars>>

CodecDecode ==
    /\ cpc = "decode"
    /\ cout' = apply_phase_delta(cprev, cdelta)
    /\ cpc' = "done"
    /\ UNCHANGED <<cprev, ccurr, cdelta, fsVars, recVars, wtVars, histVars, rdVars, coreVars>>

CodecNext == CodecEncode \/ CodecDecode

SpecCodec == CodecInit /\ [][CodecNext]_vars

(* The recorder: host loop (start_recording, capture_frame, stop_recording) *)
(* and the writer thread, over the file system.                            *)
Init == CodecIdle /\ RecorderInitState /\ CoreIdle

NextRecorder ==
    \/ StartRecording
    \/ \E sample \in CaptureSamples(current_frame) : CaptureFrame(sample)
    \/ StopRecordingClear
    \/ StopRecordingJoin
    \/ WtStart
    \/ WtLoop
    \/ WtPop
    \/ WtProcess
    \/ WtFinish

SpecRecorder == Init /\ [][NextRecorder]_vars

(* The recorder under backpressure: a longer session, on a file system     *)
(* that fails no operation.                                                *)
NoFault == h_faults' = h_faults

NextBackpressure ==
    \/ StartRecording
    \/ \E sample \in CaptureSamples(current_frame) :
           CaptureFrameWithin(sample, MaxBackpressureCaptures)
    \/ StopRecordingClear
    \/ StopRecordingJoin
    \/ WtStart /\ NoFault
    \/ WtLoop
    \/ WtPop
    \/ WtProcess /\ NoFault
    \/ WtFinish /\ NoFault

SpecBackpressure == Init /\ [][NextBackpressure]_vars

(* The recorder followed by a reader of the session's archive. *)
Next ==
    \/ StartRecording
    \/ \E sample \in CaptureSamples(current_frame) : CaptureFrame(sample)
    \/ StopRecordingClear
    \/ StopRecordingJoin
    \/ WtStart
    \/ WtLoop
    \/ WtPop
    \/ WtProcess
    \/ WtFinish
    \/ ReaderOpen
    \/ \E frame_index \in 0..(MaxCaptures - 1) : ReaderReadFrame(frame_index)
    \/ \E offset \in CorruptOffsets : CorruptArchive(offset)

Spec == Init /\ [][Next]_vars

(* The TRS controller driven by its caller. *)
InitTrs == CodecIdle /\ RecorderInitState /\ OdeInit /\ OscIdle /\ SnapIdle /\ FfiIdle /\ BindIdle /\ WireIdle /\ PhaseIdle /\ PlayerIdle

SpecTrs == InitTrs /\ [][OdeNext]_vars

InitOsc == CodecIdle /\ RecorderInitState /\ OdeIdle /\ OscInit /\ SnapIdle /\ FfiIdle /\ BindIdle /\ WireIdle /\ PhaseIdle /\ PlayerIdle

SpecOsc == InitOsc /\ [][OscNext]_vars

InitSnapshot == CodecIdle /\ RecorderInitState /\ OdeIdle /\ OscIdle /\ SnapIdle /\ FfiIdle /\ BindIdle /\ WireIdle /\ PhaseIdle /\ PlayerIdle

SpecSnapshot == InitSnapshot /\ [][SnapNext]_vars

\* the C ABI under a single caller
InitFfi == CodecIdle /\ RecorderInitState /\ OdeIdle /\ OscIdle /\ SnapIdle /\ FfiInit /\ BindIdle /\ WireIdle /\ PhaseIdle /\ PlayerIdle

SpecFfi == InitFfi /\ [][FfiNext]_vars

\* the lifecycle entry points of the C ABI under several callers
InitFfiRace == CodecIdle /\ RecorderInitState /\ OdeIdle /\ OscIdle /\ SnapIdle /\ RaceInit /\ BindIdle /\ WireIdle /\ PhaseIdle /\ PlayerIdle

SpecFfiRace == InitFfiRace /\ [][RaceNext]_vars

\* the pattern binding hook
InitBind ==
    CodecIdle /\ RecorderInitState /\ OdeIdle /\ OscIdle /\ SnapIdle /\ FfiIdle /\ BindInit
        /\ WireIdle /\ PhaseIdle /\ PlayerIdle

SpecBind == InitBind /\ [][BindNext]_vars

(* The wire format harness. *)
InitWire ==
    CodecIdle /\ RecorderInitState /\ OdeIdle /\ OscIdle /\ SnapIdle /\ FfiIdle /\ BindIdle
        /\ WireInit /\ PhaseIdle /\ PlayerIdle

SpecWire == InitWire /\ [][WireNext]_vars

(* The phase wrap harness. *)
InitPhase ==
    CodecIdle /\ RecorderInitState /\ OdeIdle /\ OscIdle /\ SnapIdle /\ FfiIdle /\ BindIdle
        /\ WireIdle /\ PhaseInit /\ PlayerIdle

SpecPhase == InitPhase /\ [][PhaseNext]_vars

(* The player harness; under SpecPlayerLive the caller keeps calling       *)
(* update and time keeps passing.                                          *)
InitPlayer ==
    CodecIdle /\ RecorderInitState /\ OdeIdle /\ OscIdle /\ SnapIdle /\ FfiIdle /\ BindIdle
        /\ WireIdle /\ PhaseIdle /\ PlayerInit

SpecPlayer == InitPlayer /\ [][PlayerNext]_vars

SpecPlayerLive == SpecPlayer /\ WF_vars(PlayerUpdate) /\ WF_vars(PlayerTick)

-----------------------------------------------------------------------------
(* C1: for every pair of i16 phase samples (a, b), decoding the encoded    *)
(* phase delta gives back b exactly, and the delta is itself an i16, also  *)
(* when b - a lies outside the i16 range.                                  *)
C1_PhaseRoundTrip ==
    /\ (cpc \in {"decode", "done"} => cdelta \in I16)
    /\ (cpc = "done" => cout = ccurr)

\* C1 witness: a wrap case (b - a outside i16) has been encoded and decoded.
C1_Witness ==
    /\ cpc = "done"
    /\ ccurr - cprev > I16Max
    /\ cout = ccurr

-----------------------------------------------------------------------------
(* Archive round trip: writer to reader *)

\* the archive was finalized by a session without I/O errors and not altered
CleanArchive == h_finish = "ok" /\ h_ioerr = "none" /\ ~h_corrupt.some

\* byte length of a frame's chunk payload
PayloadLen == ((2 * oscillator_count) + emotion_dimensions) * 2

\* keyframe flag of the chunk process_frame writes for a frame
WrittenAsKeyframe(frame) == frame.band # BAND_MICRO \/ frame.is_keyframe

(* C2: an archive produced by the writer (start, chunks, finish) is        *)
(* accepted by PsiArchiveReader::open, and the reader's chunk index then   *)
(* holds exactly the written chunks, in order, each with its band,         *)
(* keyframe flag and payload length.                                       *)
C2_OpenIndexesWrittenChunks ==
    (r_open.some /\ CleanArchive) =>
        /\ r_open.v.ok
        /\ Len(reader.all_chunks) = Len(h_written)
        /\ \A k \in 1..Len(h_written) :
               /\ reader.all_chunks[k].chunk_type = h_written[k].band
               /\ reader.all_chunks[k].is_keyframe = WrittenAsKeyframe(h_written[k])
               /\ reader.all_chunks[k].data_size = PayloadLen

\* the frames written as micro-band delta chunks
DeltaFrames ==
    {k \in 1..Len(h_written) :
         h_written[k].band = BAND_MICRO /\ ~h_written[k].is_keyframe}

(* C3: for an archive written by the recorder and a non-keyframe index i,  *)
(* read_frame(i) succeeds and yields the i16 phase, amplitude and emotion  *)
(* vectors the encoder held after emitting frame i.                        *)
C3_ReplayEquivalence ==
    \A k \in DeltaFrames :
        (r_read.some /\ r_open.some /\ CleanArchive
            /\ r_read.v.frame_index = h_written[k].frame_index) =>
            /\ r_read.v.res.ok
            /\ [i \in 1..oscillator_count |-> phase_to_int16(r_read.v.res.v.phases[i])]
                   = h_written[k].phases
            /\ [i \in 1..oscillator_count |-> amplitude_to_int16(r_read.v.res.v.amplitudes[i])]
                   = h_written[k].amplitudes
            /\ [i \in 1..emotion_dimensions |-> amplitude_to_int16(r_read.v.res.v.emotions[i])]
                   = h_written[k].emotions

-----------------------------------------------------------------------------
(* Atomic finalize *)

-----------------------------------------------------------------------------
(* Ordering of frames *)

IsPrefix(s, t) == Len(s) <= Len(t) /\ SubSeq(t, 1, Len(s)) = s

PositionIn(seq, frame) == CHOOSE i \in 1..Len(seq) : seq[i] = frame

\* the written frames are popped frames, in the order they were popped
WrittenInPopOrder ==
    /\ \A k \in 1..Len(h_written) : \E i \in 1..Len(h_popped) : h_popped[i] = h_written[k]
    /\ \A k, l \in 1..Len(h_written) :
           k < l => PositionIn(h_popped, h_written[k]) < PositionIn(h_popped, h_written[l])

-----------------------------------------------------------------------------
(* Delivery, backpressure and writer errors *)

\* the frames capture_frame accepted (returned true for)
AcceptedFrames == {k \in 1..Len(h_pushed) : h_pushed[k].band = BAND_MICRO}

(* C6: every frame for which capture_frame returned true is written: the   *)
(* writer thread exits only with the recording flag cleared and the queue  *)
(* drained, and a finalized archive holds every accepted frame.            *)
C6_AcceptedFramesWritten ==
    (wt_pc = "done" \/ disk[FinalPath].exists) =>
        /\ frame_queue = <<>>
        /\ \A k \in AcceptedFrames : \E j \in 1..Len(h_written) : h_written[j] = h_pushed[k]

C8_WriterErrorStopsSession ==
    h_ioerr \in {"start", "chunk"} =>
        /\ ~disk[FinalPath].exists
        /\ wt_pc = "done" => ~is_recording
        /\ h_finish = "none"

-----------------------------------------------------------------------------
(* Integrity *)

\* 0-based offset of the first payload byte of the first chunk: the header,
\* the tag, one length byte
FirstPayloadOffset == Len(HeaderBytes(0)) + 2

\* ReaderError kinds that report undecodable chunk data
DecodeErrorKinds == {"InvalidFormat", "DecompressionError"}

(* C9: open fails when a header byte of the archive has been altered, and  *)
(* reading the frame whose chunk payload has an altered byte yields a      *)
(* decode error for that chunk instead of data.                            *)
C9_CorruptionRejected ==
    /\ (h_corrupt.some /\ r_open.some /\ h_corrupt.v.offset < Len(HeaderBytes(0))) =>
           ~r_open.v.ok
    /\ (h_corrupt.some /\ r_read.some /\ h_corrupt.v.offset = FirstPayloadOffset
            /\ r_read.v.frame_index = 0) =>
           (~r_read.v.res.ok /\ r_read.v.res.kind \in DecodeErrorKinds)

-----------------------------------------------------------------------------
(* C11: over the integration operations (step_symplectic, integrate,       *)
(* integrate_backward, integrate_to, check_reversibility) the statistics   *)
(* steps and total_time never decrease: every successful step adds 1 to    *)
(* steps and dt to total_time, and a failed step adds nothing.             *)
RECURSIVE AddDtTimes(_, _, _)
AddDtTimes(x, dt, n) == IF n = 0 THEN x ELSE AddDtTimes(F64Add(x, dt), dt, n - 1)

C11_MonotonicStats ==
    ode_call.op \in StepOps =>
        /\ ode.stats.steps = ode_call.pre.c.stats.steps + ode_call.taken
        /\ ode.stats.total_time =
               AddDtTimes(ode_call.pre.c.stats.total_time, ode_call.pre.c.dt,
                          ode_call.taken)
        /\ ode.stats.steps >= ode_call.pre.c.stats.steps
        /\ F64Ge(ode.stats.total_time, ode_call.pre.c.stats.total_time)

\* an integrate call that followed earlier steps and took two more
C11_Witness ==
    /\ ode_call.op = "integrate"
    /\ ode_call.res = "Ok"
    /\ ode_call.taken = 2
    /\ ode_call.pre.c.stats.steps > 0
    /\ ode.stats.steps = ode_call.pre.c.stats.steps + 2

(* C12: the statistics are reset only by reset_stats: no other public      *)
(* operation of TrsOde sets steps, total_time, max_position_error or       *)
(* max_momentum_error back to a smaller value (stated for a controller     *)
(* whose dt is in range).                                                  *)
C12_ResetOnlyByResetStats ==
    (/\ ode_call.op \notin {"none", "new", "reset_stats"}
     /\ 0 < ode_call.pre.c.dt /\ ode_call.pre.c.dt < F64One) =>
        /\ ode.stats.steps >= ode_call.pre.c.stats.steps
        /\ F64Ge(ode.stats.total_time, ode_call.pre.c.stats.total_time)
        /\ F64Ge(ode.stats.max_position_error,
                 ode_call.pre.c.stats.max_position_error)
        /\ F64Ge(ode.stats.max_momentum_error,
                 ode_call.pre.c.stats.max_momentum_error)

(* C13: when an integration step fails with InvalidParameter or            *)
(* NumericalInstability the error reaches the caller, and t and S hold     *)
(* the values they had before the aborted step.                            *)
C13_FailedStepLeavesTimeAndState ==
    (/\ ode_call.op \in {"step_symplectic", "integrate", "integrate_backward",
                         "integrate_to"}
     /\ ode_call.res \in {"InvalidParameter", "NumericalInstability"}) =>
        /\ ode_t = ode_call.at.t
        /\ ode_S = ode_call.at.S

(* C14: integrate_to takes n = ceil(|t_target - t| / dt) steps, forward    *)
(* or backward, and whenever it returns Ok the time equals t_target        *)
(* exactly; a non-finite target or n > 10^9 gives InvalidParameter and no  *)
(* step is taken (stated for a controller whose dt is in range).           *)
StepsToTarget ==
    CeilDivAsUsize(TimeAbs(TimeSub(ode_call.target, ode_call.pre.t)), ode_call.pre.c.dt)

C14_IntegrateToReachesTarget ==
    (/\ ode_call.op = "integrate_to"
     /\ 0 < ode_call.pre.c.dt /\ ode_call.pre.c.dt < F64One) =>
        /\ (ode_call.res = "Ok" => ode_t = ode_call.target)
        /\ (ode_call.res = "Ok" => ode_call.taken = StepsToTarget)
        /\ (~TimeIsFinite(ode_call.target) \/ StepsToTarget > StepLimit) =>
               /\ ode_call.res = "InvalidParameter"
               /\ ode_call.taken = 0
               /\ ode_t = ode_call.pre.t
               /\ ode_S = ode_call.pre.S

(* C15: check_reversibility works on a clone and leaves the caller's S0    *)
(* alone; on success it has taken 2n steps (n forward, n backward),        *)
(* returns the TRS loss between S0 and the rolled-back state, and          *)
(* stats.trs_loss is the returned value; when a phase fails it returns     *)
(* that first error.                                                       *)
LossOfPair(lambda_trs, orig, rolled) ==
    LET dq == F64Sub(orig[1], rolled[1])
        sp == F64Add(orig[2], rolled[2])
    IN F64Add(F64Mul(dq, dq), F64Mul(lambda_trs, F64Mul(sp, sp)))

C15_CheckReversibility ==
    ode_call.op = "check_reversibility" =>
        /\ ode_S = ode_call.pre.S
        /\ ode_t = ode_call.pre.t
        /\ ode_call.res = "Ok" =>
               /\ Len(ode_call.pre.S) = 2
               /\ ode_call.taken = 2 * ode_call.arg
               /\ ode.stats.steps = ode_call.pre.c.stats.steps + 2 * ode_call.arg
               /\ ode_call.ret = LossOfPair(ode.lambda_trs, ode_call.pre.S, ode_call.rolled)
               /\ ode.stats.trs_loss = ode_call.ret
        /\ ode_call.res # "Ok" =>
               /\ ode.stats.trs_loss = ode_call.pre.c.stats.trs_loss
               /\ ode_call.taken < 2 * ode_call.arg \/ ode_call.arg > StepLimit
                    \/ ode_call.arg = 0
               /\ ode_call.res = "DimensionMismatch" =>
                      /\ Len(ode_call.pre.S) % 2 = 1
                      /\ ode_call.taken = ode_call.arg
               /\ ode_call.res = "NumericalInstability" =>
                      \E i \in 1..Len(ode_call.rolled) : ~F64IsFinite(ode_call.rolled[i])
               /\ ode_call.res = "InvalidParameter" =>
                      /\ ode_call.taken = 0
                      /\ ode_call.arg > StepLimit
                           \/ ~(0 < ode_call.pre.c.dt /\ ode_call.pre.c.dt < F64One)

\* a successful check of two steps each way that measured a loss
C15_Witness ==
    /\ ode_call.op = "check_reversibility"
    /\ ode_call.res = "Ok"
    /\ ode_call.arg = 2
    /\ ode_call.taken = 4
    /\ ode.stats.trs_loss = ode_call.ret

(* C16: out-of-range scalars are rejected with InvalidParameter and have   *)
(* no effect: set_dt outside (0, 1) or non-finite leaves dt and last_dt,   *)
(* a negative lambda_trs leaves lambda_trs, a step count above 10^9 leaves *)
(* t, S and the statistics; and no step is ever taken with a dt outside    *)
(* (0, 1), however the controller was constructed.                         *)
C16_OutOfRangeRejected ==
    /\ (ode_call.op = "set_dt" /\ ~(0 < ode_call.arg /\ ode_call.arg < F64One)) =>
           /\ ode_call.res = "InvalidParameter"
           /\ ode.dt = ode_call.pre.c.dt
           /\ ode.stats.last_dt = ode_call.pre.c.stats.last_dt
    /\ (ode_call.op = "set_lambda_trs" /\ ode_call.arg < 0) =>
           /\ ode_call.res = "InvalidParameter"
           /\ ode.lambda_trs = ode_call.pre.c.lambda_trs
    /\ (/\ ode_call.op \in {"integrate", "integrate_backward", "check_reversibility"}
        /\ ode_call.arg > StepLimit) =>
           /\ ode_call.res = "InvalidParameter"
           /\ ode_t = ode_call.pre.t
           /\ ode_S = ode_call.pre.S
           /\ ode.stats = ode_call.pre.c.stats
    /\ (ode_call.op \in StepOps /\ ode_call.taken > 0) =>
           (0 < ode_call.pre.c.dt /\ ode_call.pre.c.dt < F64One)

\* a step count above the limit given to a controller that has already stepped
C16_Witness ==
    /\ ode_call.op = "integrate_backward"
    /\ ode_call.arg > StepLimit
    /\ ode_call.res = "InvalidParameter"
    /\ ode_call.pre.c.stats.steps > 0
    /\ ode.stats.steps = ode_call.pre.c.stats.steps

-----------------------------------------------------------------------------
(* Claims about the oscillator network *)

\* the squared norm of a spin is 1 to within the rounding of its components
SpinNormTolerance == 4

SpinIsUnit(s) == Abs(Vec3NormSq(s) - FxOne) <= SpinNormTolerance

\* C17: after a successful step with n_spin >= 1, from any initial state
\* (the all-zero spins of OscState::new included), every spin vector has
\* unit norm.
C17_UnitSpinsAfterStep ==
    (osc_call.op = "step" /\ osc_call.res = "Ok" /\ osc_call.n_spin >= 1)
    => \A i \in 1..osc_state.n_oscillators : SpinIsUnit(osc_state.sigma[i])

\* a matrix of n rows of n entries each
IsSquare(k, n) == Len(k) = n /\ \A i \in 1..Len(k) : Len(k[i]) = n

IsErr(res) == res \notin {"Ok", "panic"}

\* C18: a step with a coupling matrix that is not square of the size of the
\* state fails with an error and leaves the state unchanged, and
\* set_coupling rejects a matrix that is not square of the size of the
\* network and keeps the coupling matrix it had.
C18_NonSquareCouplingIsAnError ==
    /\ (/\ osc_call.op = "step"
        /\ ~IsSquare(osc_call.pre.o.k_matrix, osc_call.pre.state.n_oscillators))
       => (IsErr(osc_call.res) /\ osc_state = osc_call.pre.state)
    /\ (/\ osc_call.op = "set_coupling"
        /\ ~IsSquare(osc_call.arg, Len(osc_call.pre.o.k_matrix)))
       => (IsErr(osc_call.res) /\ osc.k_matrix = osc_call.pre.o.k_matrix)

-----------------------------------------------------------------------------
(* Claims about the snapshot codec *)

\* fewer bytes than the fields up to the oscillator count and the four
\* arrays of the declared count take
SizeShortfall(bytes) ==
    \/ Len(bytes) < 20
    \/ Len(bytes) < (IF ByteAt(bytes, 19) # 0 THEN 28 ELSE 24)
    \/ IF ByteAt(bytes, 19) # 0
       THEN U32Exceeds(Slice(bytes, 24, 28), (Len(bytes) - 28) \div 32)
       ELSE U32Exceeds(Slice(bytes, 20, 24), (Len(bytes) - 24) \div 32)

\* the error of the first check an input fails, the checks taken in the
\* order magic, version, schema CRC, endianness, size
FirstDefect(bytes) ==
    IF Len(bytes) < 4 \/ Slice(bytes, 0, 4) # IDENTIFIER THEN "InvalidFormat"
    ELSE IF Len(bytes) < 6 THEN "InvalidFormat"
    ELSE IF Slice(bytes, 4, 6) # U16ToLeBytes(VERSION) THEN "IncompatibleVersion"
    ELSE IF Len(bytes) < 10 THEN "InvalidFormat"
    ELSE IF Slice(bytes, 6, 10) # SCHEMA_CRC32 THEN "SchemaMismatch"
    ELSE IF Len(bytes) < 11 THEN "InvalidFormat"
    ELSE IF ByteAt(bytes, 10) # LITTLE_ENDIAN THEN "UnsupportedEndianness"
    ELSE IF SizeShortfall(bytes) THEN "InvalidFormat"
    ELSE "none"

\* C19: from_bytes returns an error, and neither panics nor returns a
\* snapshot, for every input with a wrong magic, an unsupported version, a
\* schema-CRC mismatch, a marker other than little-endian, or too few
\* bytes; the error is that of the first of these checks the input fails.
C19_MalformedInputIsAnError ==
    (snap_call.op = "from_bytes" /\ FirstDefect(snap_in) # "none")
    => (~snap_call.res.v.ok /\ snap_call.res.v.kind = FirstDefect(snap_in))

-----------------------------------------------------------------------------
(* Claims about the C ABI *)

InitOps == {"alan_init", "alan_init_snapshot"}

\* C21: under any interleaving of alan_init, alan_init_snapshot and
\* alan_shutdown calls of several threads, an init that read an active
\* simulation returned SimulationActive, an init that returned NoError
\* stored its simulation over no other (uninit -> active is the only
\* transition an init makes), and SIMULATION is never torn.
C21_SingletonUnderRaces ==
    /\ SIMULATION # Torn
    /\ \A t \in FfiThreads :
          (ffi_thread[t].pc = "done" /\ ffi_thread[t].op \in InitOps)
          => /\ ffi_thread[t].seen => ffi_thread[t].ret = ALAN_ERR_SIMULATION_ACTIVE
             /\ ffi_thread[t].ret = ALAN_ERR_NO_ERROR => ~ffi_thread[t].found.some

LifecycleCheckedOps ==
    {"alan_get_phase", "alan_set_state", "alan_step", "alan_integrate", "alan_get_stats",
     "alan_shutdown"}

\* C22: alan_get_phase, alan_set_state, alan_step, alan_integrate,
\* alan_get_stats and alan_shutdown called while no simulation is active
\* return SimulationNotInitialized and leave the singleton uninitialized.
C22_NotInitializedReported ==
    (ffi_call.op \in LifecycleCheckedOps /\ ~ffi_call.pre.some)
    => (ffi_call.ret = ALAN_ERR_SIMULATION_NOT_INITIALIZED /\ SIMULATION = None)

\* the code of the error kind a controller operation ended with
KindCode(res) == IF res = "Ok" THEN ALAN_ERR_NO_ERROR ELSE AlanErrorCode(res)

-----------------------------------------------------------------------------
(* Claims about the pattern binding *)

\* the hash try_bind_to_elfin looked up in its last call
BoundHash == siphash24(FormatSignature(bind_call.sig))

\* the union of the metadata of an attractor node and a symbol node, the
\* symbol's value taken for a key both have, with source = ELFIN
BoundMetadata(own, symbol) ==
    [x \in (DOMAIN own) \cup (DOMAIN symbol) \cup {"source"} |->
       IF x = "source" THEN "ELFIN" ELSE IF x \in DOMAIN symbol THEN symbol[x] ELSE own[x]]

\* C24: when the hash of the formatted signature is registered in a graph
\* and the attractor node exists in that graph, try_bind_to_elfin returns
\* true and the attractor node's metadata becomes the union of its own and
\* the symbol node's with source = ELFIN; when the hash is registered
\* nowhere it returns false and every graph is unchanged.
C24_BindMergesOnHit ==
    bind_call.op = "try_bind_to_elfin"
    => /\ \A g \in GraphNames :
             (/\ BoundHash \in DOMAIN bind_call.pre[g].hash_lookup
              /\ bind_call.node \in DOMAIN bind_call.pre[g].nodes)
             => /\ bind_call.ret
                /\ bind_call.pre[g].hash_lookup[BoundHash] \in DOMAIN bind_call.pre[g].nodes
                /\ graphs[g].nodes[bind_call.node] =
                      BoundMetadata(bind_call.pre[g].nodes[bind_call.node],
                                    bind_call.pre[g].nodes[
                                        bind_call.pre[g].hash_lookup[BoundHash]])
       /\ (\A g \in GraphNames : BoundHash \notin DOMAIN bind_call.pre[g].hash_lookup)
          => (~bind_call.ret /\ graphs = bind_call.pre)

-----------------------------------------------------------------------------
(* Claims about the reader's frame index *)

IsVisualFrame(frame) == frame.band \in VisualBands

IsVisualChunk(chunk) == chunk.chunk_type \in VisualBands

\* C25: after open of a cleanly written archive the k-th visual-band chunk
\* of the index has frame_index k (counted from 0), keyframe or delta, and
\* frame_count() is the number of visual frames written.
C25_ConsecutiveFrameIndices ==
    (r_open.some /\ CleanArchive)
    => /\ frame_count(reader) = Len(SelectSeq(h_written, IsVisualFrame))
       /\ Len(SelectSeq(reader.all_chunks, IsVisualChunk))
             = Len(SelectSeq(h_written, IsVisualFrame))
       /\ \A k \in 1..Len(SelectSeq(reader.all_chunks, IsVisualChunk)) :
             SelectSeq(reader.all_chunks, IsVisualChunk)[k].frame_index = k - 1

-----------------------------------------------------------------------------
(* Claims about the keyframe policy *)

\* the bytes the writer has staged or flushed for the temporary file
StagedBytes(d, wr) ==
    (IF d[TempPath].exists THEN d[TempPath].bytes ELSE <<>>) \o wr.buf

\* the process_frame step of the writer thread has written the chunk of a
\* micro-band keyframe
KeyframeWritten ==
    /\ wt_pc = "process"
    /\ wt_frame.band = BAND_MICRO
    /\ wt_frame.is_keyframe
    /\ Len(h_written') = Len(h_written) + 1

\* C26: a captured micro-band frame is a keyframe exactly when its
\* frame_index is 0 or a multiple of keyframe_interval; the chunk of a
\* keyframe is tagged as one and carries the frame's quantized values as
\* they are, and writing it leaves the encoder's last phases, amplitudes and
\* emotions equal to the frame's.
C26_KeyframePolicy ==
    [][/\ \A i \in 1..Len(h_pushed') :
             h_pushed'[i].band = BAND_MICRO
             => (h_pushed'[i].is_keyframe
                   <=> (h_pushed'[i].frame_index % keyframe_interval = 0))
       /\ KeyframeWritten
          => /\ StagedBytes(disk', w')
                  = StagedBytes(disk, w)
                      \o <<BAND_MICRO + KEYFRAME_MARKER>>
                      \o write_leb128(2 * (oscillator_count + oscillator_count
                                             + emotion_dimensions))
                      \o PackI16s(wt_frame.phases)
                      \o PackI16s(wt_frame.amplitudes)
                      \o PackI16s(wt_frame.emotions)
                      \o Crc32LeBytes(PackI16s(wt_frame.phases)
                                        \o PackI16s(wt_frame.amplitudes)
                                        \o PackI16s(wt_frame.emotions))
             /\ delta_encoder'.last_phases = wt_frame.phases
             /\ delta_encoder'.last_amplitudes = wt_frame.amplitudes
             /\ delta_encoder'.last_emotions = wt_frame.emotions]_vars

\* a keyframe other than the first was written and the encoder holds it
C26_Witness ==
    \E i \in 1..Len(h_written) :
        /\ h_written[i].band = BAND_MICRO
        /\ h_written[i].is_keyframe
        /\ h_written[i].frame_index = keyframe_interval
        /\ delta_encoder.last_phases = h_written[i].phases
        /\ delta_encoder.last_amplitudes = h_written[i].amplitudes

-----------------------------------------------------------------------------
(* Claims about the wire format *)

\* C28: the tag byte write_chunk emits for a band code (micro, meso, macro,
\* audio PCM) and a keyframe flag is decoded by the reader's scan to the same
\* band and the same flag, and the chunk is indexed: its tag is not taken
\* for the end marker.
C28_TagRoundTrip ==
    (wire.op = "chunk" /\ wire.pc = "done")
    => /\ wire.out.res.ok
       /\ Len(wire.out.all_chunks) = 1
       /\ wire.out.all_chunks[1].chunk_type = wire.band
       /\ wire.out.all_chunks[1].is_keyframe = wire.is_keyframe

\* bits 7(i-1) .. 7i-1 of a u32, i in 1..5
Leb128Group(value, i) ==
    CASE i = 1 -> value.lo % 128
      [] i = 2 -> (value.lo \div 128) % 128
      [] i = 3 -> (value.lo \div 16384) + ((value.hi % 32) * 4)
      [] i = 4 -> (value.hi \div 32) % 128
      [] OTHER -> value.hi \div 4096

\* more groups than the reader takes: the first five all ask for another
Leb128LongerThanLimit(bytes) ==
    Len(bytes) >= 5 /\ \A i \in 1..5 : bytes[i] >= 128

\* C29: the bytes write_leb128 emits for a u32 are its 7-bit groups, lowest
\* first, each but the last with the continuation bit 0x80; read_leb128 on
\* them returns the value and the number of bytes written; an encoding
\* longer than the reader's limit is rejected as InvalidFormat.
C29_Leb128RoundTrip ==
    (wire.op = "leb128" /\ wire.pc = "done")
    => /\ wire.written
          => /\ Len(wire.bytes) \in 1..5
             /\ \A i \in 1..Len(wire.bytes) :
                   /\ wire.bytes[i] % 128 = Leb128Group(wire.value, i)
                   /\ (wire.bytes[i] >= 128) <=> (i < Len(wire.bytes))
             /\ wire.out.ok
             /\ wire.out.v.value = wire.value
             /\ wire.out.v.bytes_read = Len(wire.bytes)
       /\ (~wire.written /\ Leb128LongerThanLimit(wire.bytes))
          => (~wire.out.ok /\ wire.out.kind = "InvalidFormat")

\* u32::MAX went through five bytes and came back
C29_Witness ==
    /\ wire.op = "leb128" /\ wire.pc = "done"
    /\ wire.written
    /\ wire.value = U32(65535, 65535)
    /\ Len(wire.bytes) = 5
    /\ wire.out.ok
    /\ wire.out.v.value = U32(65535, 65535)

\* C30: for every pair of quantized samples the recorder produces, the plain
\* delta b - a does not overflow i16 and saturating_add(a, b - a) is b.
C30_PlainDeltaRoundTrip ==
    (wire.op = "delta" /\ wire.pc = "done")
    => /\ ~plain_delta_overflows(wire.last, wire.value)
       /\ wire.delta.some
       /\ wire.delta.v = wire.value - wire.last
       /\ wire.out.some
       /\ wire.out.v = wire.value

-----------------------------------------------------------------------------
(* Claims about the periodic flush *)

-----------------------------------------------------------------------------
(* Claims about the oscillator step *)

\* C32: after the phase integration of a step every phase lies in
\* [0, 2*pi) (2*pi lies below the f32 TAU); the coherence is computed from
\* these phases at the end of the step.
C32_PhaseInRange ==
    phase_call.pc = "stepped"
    => /\ ~F32IsNegative(phase_call.theta)
       /\ ~F32GePositive(phase_call.theta, F32Tau)

\* the outcome of the last step or run when it is made again on the
\* oscillator and the state it found
OscReplay ==
    IF osc_call.op = "step"
    THEN step(osc_call.pre.o, osc_call.pre.state, osc_call.n_spin)
    ELSE run(osc_call.pre.o, osc_call.pre.state, osc_call.arg, osc_call.n_spin)

-----------------------------------------------------------------------------
(* Claims about the player *)

\* the smaller of two naturals
Least(a, b) == IF a < b THEN a ELSE b

\* C34: seek(f) with f >= frame_count returns InvalidParameter without a
\* panic, also on an empty archive, and leaves position and buffer as they
\* were; seek(f) with f < frame_count sets position to f and leaves in the
\* buffer the frames f, f + 1, ... up to max_buffer_size or the last frame.
C34_Seek ==
    player_call.op = "seek"
    => /\ player_call.res.some
       /\ player_call.arg >= frame_count(reader)
          => /\ ~player_call.res.v.ok
             /\ player_call.res.v.kind = "InvalidParameter"
             /\ player = player_call.pre
       /\ player_call.arg < frame_count(reader)
          => /\ player.position = player_call.arg
             /\ Len(player.frame_buffer)
                   = Least(max_buffer_size, frame_count(reader) - player_call.arg)
             /\ \A k \in 1..Len(player.frame_buffer) :
                   player.frame_buffer[k].frame_index = player_call.arg + k - 1

\* C36: while the player is playing and the caller goes on calling update
\* as time passes, playback comes to its end: playing becomes false (or the
\* caller makes another call).
C36_PlaybackEnds ==
    player.playing ~> (~player.playing \/ player_call.op # "update")

-----------------------------------------------------------------------------
(* Claims about time reversal *)

\* C37: on a state of even length reverse negates t and every momentum,
\* leaves the positions alone, and applied a second time gives back t and S;
\* on a state of odd length it returns DimensionMismatch and leaves t and S
\* as they were.
C37_ReverseInvolution ==
    ode_call.op = "reverse"
    => IF Len(ode_call.pre.S) % 2 = 0
       THEN /\ ode_call.res = "Ok"
            /\ ode_t = TimeNeg(ode_call.pre.t)
            /\ Len(ode_S) = Len(ode_call.pre.S)
            /\ \A i \in 1..Len(ode_S) :
                   ode_S[i] = IF i > Len(ode_S) \div 2 THEN F64Neg(ode_call.pre.S[i])
                              ELSE ode_call.pre.S[i]
            /\ reverse(ode_t, ode_S).res = "Ok"
            /\ reverse(ode_t, ode_S).t = ode_call.pre.t
            /\ reverse(ode_t, ode_S).S = ode_call.pre.S
       ELSE /\ ode_call.res = "DimensionMismatch"
            /\ ode_t = ode_call.pre.t
            /\ ode_S = ode_call.pre.S

\* the caller's t and S carried through the forward integration of
\* integrate_backward in the reversed frame, as far as it got
BackwardInReversedFrame ==
    integrate(ode_call.pre.c, reverse(ode_call.pre.t, ode_call.pre.S).t,
              reverse(ode_call.pre.t, ode_call.pre.S).S, ode_call.arg)

\* C38: integrate_backward returns with t and the momenta in the caller's
\* orientation, whether it returns Ok or fails part-way: the state on return
\* is the reversal of what the forward steps reached in the reversed frame,
\* and the caller's own t and S where no step was attempted.
C38_BackwardOrientation ==
    ode_call.op = "integrate_backward"
    => IF ode_call.arg > StepLimit \/ Len(ode_call.pre.S) % 2 # 0
       THEN ode_t = ode_call.pre.t /\ ode_S = ode_call.pre.S
       ELSE /\ ode_t = TimeNeg(BackwardInReversedFrame.t)
            /\ ode_S = reverse(BackwardInReversedFrame.t, BackwardInReversedFrame.S).S

-----------------------------------------------------------------------------
(* Claims about the frame buffers *)

\* the buffers the writer thread holds between its pop and its push
HeldByWriter == IF wt_frame = NoFrame THEN 0 ELSE 1

IsMicroFrame(frame) == frame.band = BAND_MICRO

MicroWritten == SelectSeq(h_written, IsMicroFrame)

=============================================================================
